---- MODULE Spec2Model ----
(***************************************************************************)
(* Model of the session/request layer of the Reolink client                *)
(* (src/src/reolink.ts) and of the event poller (src/src/events.ts).       *)
(*                                                                         *)
(* Every async method is cut at its await points: one action per           *)
(* synchronous segment.  Several invocations may be in flight at once on   *)
(* the one session object, interleaved as the event loop allows.           *)
(***************************************************************************)
EXTENDS Integers, Sequences, FiniteSets, TLC

(***************************************************************************)
(* Bounds of the model                                                     *)
(***************************************************************************)
\* number of pollers made for the session
NumEmitters == 1
\* total number of public-method invocations in one behaviour
MaxOps == 2
\* number of times the clock advances
MaxTicks == 1
\* largest batch handed to requestMany
MaxBatch == 2
\* number of ticks one poller begins
MaxPolls == 3
MaxOverlapPolls == 4
\* number of listeners registered on one poller
MaxListeners == 2
\* longest list of waypoints in a patrol configuration
MaxPoints == 2
\* longest bit string of a Grid Area
MaxBits == 4
\* largest number of entries of zones.ai
MaxAi == 2
\* longest body of a response to Snap, in bytes
MaxBody == 3

(***************************************************************************)
(* Program constants                                                       *)
(***************************************************************************)
\* ensureToken: "Refresh if token expires within 60 seconds" (milliseconds)
RefreshMarginMs == 60000
\* login: Token.leaseTime ?? 3600
DefaultLeaseTime == 3600
\* login: Date.now() + tokenLeaseTime * 1000
MsPerSecond == 1000

\* checkChannel: the api calls of one tick for one channel (GetMdState,
\* GetAiState)
CallsPerChannel == 2

\* private token: string = "null"
NoToken == "null"

\* the callers of the client: two, so that invocations can overlap; a tick
\* of a poller is an invocation too and takes the place of a caller
Procs == {1, 2}
\* the pollers
Emitters == 1..NumEmitters

\* token names the device hands out in a Login response
TokenNames == {"tokA", "tokB"}
\* Token.leaseTime of a Login response, in seconds: <<>> is a response that
\* carries none
LeaseTimes == {<<>>, <<60>>}
\* amounts by which Date.now() moves between two steps: from the grant of
\* a default lease to the first instant at which ensureToken refreshes it
ClockSteps == {DefaultLeaseTime * MsPerSecond - RefreshMarginMs}

(***************************************************************************)
(* Strings as sequences of characters, so that toLowerCase() and           *)
(* includes() are computed and not assumed.                                *)
(***************************************************************************)
Upper == <<"A","B","C","D","E","F","G","H","I","J","K","L","M",
           "N","O","P","Q","R","S","T","U","V","W","X","Y","Z">>
Lower == <<"a","b","c","d","e","f","g","h","i","j","k","l","m",
           "n","o","p","q","r","s","t","u","v","w","x","y","z">>

\* the lower-case letter of each upper-case letter
LowerOf == [c \in {Upper[i] : i \in 1..26} |-> Lower[CHOOSE i \in 1..26 : Upper[i] = c]]

toLowerCaseChar(c) == IF c \in DOMAIN LowerOf THEN LowerOf[c] ELSE c

toLowerCase(s) == [i \in 1..Len(s) |-> toLowerCaseChar(s[i])]

includes(s, w) ==
  \E i \in 0..(Len(s) - Len(w)) : \A j \in 1..Len(w) : s[i + j] = w[j]

WordToken == <<"t","o","k","e","n">>
WordSession == <<"s","e","s","s","i","o","n">>

\* `HTTP error! status: ${response.status}`
HttpDetail(status) ==
  <<"H","T","T","P"," ","e","r","r","o","r","!"," ","s","t","a","t","u","s",":"," ">>
    \o (IF status = 401 THEN <<"4","0","1">>
        ELSE IF status = 500 THEN <<"5","0","0">>
        ELSE <<"2","0","0">>)

(***************************************************************************)
(* Device responses                                                        *)
(***************************************************************************)
\* one response envelope: {code: 0, value} or {code, error: {rspCode, detail}}
OkEnvelope == [code |-> 0, rspCode |-> 0, detail |-> <<>>]
ErrorEnvelopes ==
  { [code |-> 1, rspCode |-> -1, detail |-> <<"b","a","d">>],
    [code |-> 1, rspCode |-> -6, detail |-> <<"n","o"," ","T","o","k","e","n">>],
    [code |-> 1, rspCode |-> -6, detail |-> <<"S","E","S","S","I","O","N">>],
    [code |-> 1, rspCode |-> -4, detail |-> <<"b","a","d">>] }
Envelopes == {OkEnvelope} \cup ErrorEnvelopes

\* sequences of n envelopes: the body of one HTTP response
RECURSIVE Bodies(_)
Bodies(n) ==
  IF n = 0 THEN {<<>>}
  ELSE {Append(b, e) : b \in Bodies(n - 1), e \in Envelopes}

\* what fetch gives back: a rejected promise ("throw"), or a response with a
\* status and, when the status is ok, a JSON array of n envelopes
Responses(n) ==
  {[kind |-> "throw", status |-> 0, data |-> <<>>]}
    \cup {[kind |-> "http", status |-> s, data |-> <<>>] : s \in {401, 500}}
    \cup {[kind |-> "http", status |-> 200, data |-> b] : b \in Bodies(n)}

\* Responses, tabulated once
ResponsesOf == [n \in 1..MaxBatch |-> Responses(n)]

\* what fetch gives back to a call of a poller's tick: a value, an auth
\* failure, another failure, a rejected promise
PollResponses ==
  {[kind |-> "throw", status |-> 0, data |-> <<>>],
   [kind |-> "http", status |-> 401, data |-> <<>>],
   [kind |-> "http", status |-> 500, data |-> <<>>],
   [kind |-> "http", status |-> 200, data |-> <<OkEnvelope>>]}

\* what fetch gives back for the Login request
LoginResponses ==
  {[kind |-> "throw", status |-> 0, data |-> <<>>],
   [kind |-> "http", status |-> 401, data |-> <<>>],
   [kind |-> "http", status |-> 200, data |-> <<OkEnvelope>>],
   [kind |-> "http", status |-> 200,
    data |-> <<[code |-> 1, rspCode |-> -1, detail |-> <<"b","a","d">>]>>]}

\* response.ok
ok(r) == r.status >= 200 /\ r.status <= 299

NoError == [code |-> 0, rspCode |-> 0, detail |-> <<>>, command |-> ""]

\* new ReolinkHttpError(response.status, response.status, `HTTP error! ...`, command)
HttpStatusError(r, command) ==
  [code |-> r.status, rspCode |-> r.status, detail |-> HttpDetail(r.status),
   command |-> command]

\* new ReolinkHttpError(errorResult.code, errorResult.error.rspCode, detail, command)
EnvelopeError(e, command) ==
  [code |-> e.code, rspCode |-> e.rspCode, detail |-> e.detail, command |-> command]

(***************************************************************************)
(* State                                                                   *)
(***************************************************************************)
VARIABLES
  mode,             \* "long" (token session) or "short" (per request)
  token,            \* this.token
  tokenLeaseTime,   \* this.tokenLeaseTime (seconds)
  tokenExpiryTime,  \* this.tokenExpiryTime (ms timestamp)
  closed,           \* this.closed
  eventEmitters,    \* this.eventEmitters
  emitter,          \* the ReolinkEventEmitter objects
  now,              \* Date.now()
  proc,             \* the invocations in flight, one record per caller
  ops,              \* invocations started so far
  ticks,            \* clock advances so far
  deviceLease,      \* the Token.leaseTime this device puts in its Login responses
  closeReturned     \* history: a close() that ran the teardown has returned

\* the cache and the listeners of a poller (ReolinkEventEmitter), for one
\* channel; pollHist.motion is the active value of the last motion
\* notification
VARIABLES
  lastStates,       \* this.lastStates.get(channel): 0 when the Map has no entry,
                    \* else the LastState object it refers to
  heap,             \* the LastState objects: motion and ai, <<>> for undefined
  inflight,         \* the checkChannel invocations in flight
  listeners,        \* the listeners registered on the poller
  emitted,          \* the this.emit(...) of the step just taken
  pollHist          \* history of the poller's ticks and listeners

poller == <<lastStates, heap, inflight, listeners, emitted, pollHist>>

\* one call of a function of the PTZ or presets module on the client
VARIABLES
  call,             \* the call: function, arguments, where it stands, result
  sent              \* the device commands it has issued, in order

\* the device's PTZ guard and the callers of toggleGuardMode
VARIABLES
  deviceGuard,      \* what the device answers to GetPtzGuard: <<>> without a
                    \* PtzGuard member, else <<[benable, timeout]>>
  toggler           \* the toggleGuardMode invocations, one record per caller

world == <<deviceGuard, toggler>>

\* the state outside the request layer
others == <<poller, call, sent, world>>

vars == <<mode, token, tokenLeaseTime, tokenExpiryTime, closed, eventEmitters,
          emitter, now, proc, ops, ticks, deviceLease, closeReturned, others>>

\* the state of the request layer
client == <<mode, token, tokenLeaseTime, tokenExpiryTime, closed, eventEmitters,
            now, proc, ops, ticks, deviceLease, closeReturned>>

session == <<token, tokenLeaseTime, tokenExpiryTime>>
pollers == <<eventEmitters, emitter>>

\* An invocation: the method (op), where it stands (pc), the arguments
\* (retryCount, n = requests.length, em = the poller whose tick it is, left =
\* calls the tick has still to make), its result (out, err) and its history:
\* requests and envelopes sent, Login requests sent (logins; relogins are
\* those of the catch block), command responses received (resps; authFails
\* are the auth-shaped failures among them), the credential of the last
\* request (auth), and closed and token as they were at the invocation.
\* caught is the error in the catch block of withToken while the retry it
\* started is running.
IdleProc ==
  [op |-> "idle", pc |-> "idle", retryCount |-> 0, n |-> 0, em |-> 0, left |-> 0,
   out |-> "none", err |-> NoError,
   sends |-> 0, envs |-> 0, logins |-> 0, relogins |-> 0, resps |-> 0,
   authFails |-> 0, auth |-> "", atClosed |-> FALSE, hadToken |-> FALSE,
   caught |-> NoError]

\* a poller: constructed or not, isRunning, pollTimer !== null; history:
\* stopped by close(), started a tick after close() returned
NoEmitter ==
  [made |-> FALSE, isRunning |-> FALSE, pollTimer |-> FALSE,
   atClose |-> FALSE, lateTick |-> FALSE]

\* a LastState object as checkChannel makes it: {}
NoLastState == [motion |-> <<>>, ai |-> <<>>]

\* the checkChannel invocations run in two places, so that a tick can begin
\* while the one before it is still awaiting the device
TickSlots == {1, 2}
ListenerIds == 1..MaxListeners

NoCheck == [pc |-> "idle", ref |-> 0, byStart |-> FALSE]
NoEmit == [kind |-> "none", to |-> {}, active |-> <<>>]

\* new ReolinkEventEmitter(client, {channels: [0]})
InitPoller ==
  /\ lastStates = 0
  /\ heap = [s \in TickSlots |-> NoLastState]
  /\ inflight = [s \in TickSlots |-> NoCheck]
  /\ listeners = {}
  /\ emitted = NoEmit
  /\ pollHist = [polls |-> 0, ons |-> 0, last |-> "new", removed |-> {},
                 startTickEmitted |-> FALSE, motion |-> <<>>]

\* no module call has been made
\* (resp: history, the device response the call settled on)
NoCall == [fn |-> "none", pc |-> "idle", arg |-> <<>>, cur |-> <<>>,
           out |-> "none", err |-> NoError, resp |-> <<>>]

InitCall ==
  /\ call = NoCall
  /\ sent = <<>>

\* the callers of toggleGuardMode: two, so that toggles can overlap
Togglers == {1, 2}

\* a toggleGuardMode invocation: where it stands (pc), the value it read,
\* the PtzGuard it writes, its result (ok); history: order is its rank among
\* the invocations, before the enabled state of the device when it was
\* invoked, after the invocations that had returned by then
NoToggle ==
  [pc |-> "idle", read |-> <<>>, writing |-> <<>>, ok |-> FALSE,
   order |-> 0, before |-> 0, after |-> {}]

\* a device on which no guard has been configured, and no toggle
InitWorld ==
  /\ deviceGuard = <<>>
  /\ toggler = [i \in Togglers |-> NoToggle]

Init ==
  /\ mode \in {"long", "short"}
  /\ token = NoToken
  /\ tokenLeaseTime = DefaultLeaseTime
  /\ tokenExpiryTime = 0
  /\ closed = FALSE
  /\ eventEmitters = {}
  /\ emitter = [e \in Emitters |-> NoEmitter]
  /\ now = 0
  /\ proc = [p \in Procs |-> IdleProc]
  /\ ops = 0
  /\ ticks = 0
  /\ deviceLease \in LeaseTimes
  /\ closeReturned = FALSE
  /\ InitPoller
  /\ InitCall
  /\ InitWorld

(***************************************************************************)
(* Pure parts of the request layer                                         *)
(***************************************************************************)
\* a test that does not look at rspCode
isTokenErrorNoRspCode(error) ==
  \/ error.code = 401
  \/ includes(toLowerCase(error.detail), WordToken)
  \/ includes(toLowerCase(error.detail), WordSession)

\* withToken / withTokenMany: isTokenError
isTokenError(error) ==
  \/ error.code = 401
  \/ error.rspCode = -1
  \/ includes(toLowerCase(error.detail), WordToken)
  \/ includes(toLowerCase(error.detail), WordSession)

\* a retry that forgets to look at retryCount
shouldRetryEveryTime(error, retryCount) == isTokenError(error)

\* a retry after any device error
shouldRetryAnyError(error, retryCount) == retryCount = 0

\* withToken / withTokenMany: isTokenError && retryCount === 0
shouldRetry(error, retryCount) == isTokenError(error) /\ retryCount = 0

\* a refresh that comes one instant late
needsLoginLate(tok, expiry, t) == tok = NoToken \/ t > expiry - RefreshMarginMs

\* ensureToken: the condition under which it calls login()
needsLogin(tok, expiry, t) == tok = NoToken \/ t >= expiry - RefreshMarginMs

\* a logout without its early return
logoutNeverEarly(tok, isClosed) == FALSE

\* logout: the early return
logoutReturnsEarly(tok, isClosed) == tok = NoToken \/ tok = "" \/ isClosed

\* apiInternal / apiInternalMany: the credential put in the query string
queryAuth(m, tok) == IF m = "short" THEN "user+password" ELSE tok

\* a lease without the default for an absent leaseTime
leaseOfNoDefault(tk) == IF tk.leaseTime = <<>> THEN 0 ELSE tk.leaseTime[1]

\* login: this.tokenLeaseTime = loginResponse.Token.leaseTime ?? 3600
leaseOf(tk) == IF tk.leaseTime = <<>> THEN DefaultLeaseTime ELSE tk.leaseTime[1]

\* login: this.tokenExpiryTime = Date.now() + this.tokenLeaseTime * 1000
expiryOf(t, lease) == t + lease * MsPerSecond

\* the error a command's response raises in apiInternal, or NoError
apiInternalError(r, command) ==
  IF ~ok(r) THEN HttpStatusError(r, command)
  ELSE IF r.data[1].code = 0 THEN NoError
  ELSE EnvelopeError(r.data[1], command)

\* login: the error its response raises, or NoError
loginError(r) ==
  IF ~ok(r) THEN HttpStatusError(r, "Login")
  ELSE IF r.data[1].code = 0 THEN NoError
  ELSE EnvelopeError(r.data[1], "Login")

\* apiInternalMany raises for a non-success HTTP status only
apiInternalManyError(r, command) ==
  IF ~ok(r) THEN HttpStatusError(r, command) ELSE NoError

\* requestMany: responses.map(...) throws for the first envelope whose code
\* is not 0
firstFailure(data, command) ==
  IF \A i \in 1..Len(data) : data[i].code = 0 THEN NoError
  ELSE EnvelopeError(data[CHOOSE i \in 1..Len(data) :
                            /\ data[i].code # 0
                            /\ \A j \in 1..(i - 1) : data[j].code = 0],
                     command)

\* withTokenMany: the batch it sends, as a number of envelopes (normalized
\* has one entry per request, at the first attempt and at the retry)
batchSent(n, retryCount) == n

\* value.Token of a successful Login response: the device never hands out
\* the name the client is holding
Tokens == [name : TokenNames \ {token}, leaseTime : {deviceLease}]

(***************************************************************************)
(* Bookkeeping of one invocation                                           *)
(***************************************************************************)
\* an invocation settles; a tick of a poller drops the result of its calls
\* (the catch blocks of poll and checkChannel)
Settle(b, out, err) ==
  IF b.op = "poll"
    THEN [IdleProc EXCEPT !.op = "poll", !.pc = "done", !.em = b.em, !.left = b.left]
    ELSE [b EXCEPT !.pc = "done", !.out = out, !.err = err, !.caught = NoError]

Begin(op, n) ==
  [IdleProc EXCEPT !.op = op, !.n = n, !.atClosed = closed,
                   !.hadToken = (token # NoToken)]

\* the Login request goes out
SendLogin(b, isRetry) ==
  [b EXCEPT !.pc = "awaitLogin", !.logins = @ + 1,
            !.relogins = IF isRetry THEN @ + 1 ELSE @, !.auth = NoToken]

\* the command request goes out, carrying credential a
SendRequest(b, a) ==
  [b EXCEPT !.pc = "awaitCmd", !.sends = @ + 1,
            !.envs = @ + batchSent(b.n, b.retryCount), !.auth = a]

\* a caller's slot is free once its last invocation has settled; callers
\* are interchangeable, so a new invocation takes the first free slot
Free(p) == proc[p].pc \in {"idle", "done"} /\ proc[p].left = 0
Takes(p) == Free(p) /\ \A q \in Procs : q < p => ~Free(q)
CanStart(p) == Takes(p) /\ ops < MaxOps

(***************************************************************************)
(* withToken / withTokenMany, from their first line to their first await.  *)
(* tok and exp are the token fields as the caller leaves them: unchanged   *)
(* at a fresh call, invalidated when the catch block re-enters.            *)
(***************************************************************************)
\* a wrapper without the branch for short mode
withTokenEveryMode(p, b, tok, exp) ==
  /\ token' = tok
  /\ tokenExpiryTime' = exp
  /\ proc' = [proc EXCEPT ![p] =
       IF closed
         THEN Settle(b, "closed", NoError)
       ELSE IF needsLogin(tok, exp, now)
         THEN SendLogin(b, b.retryCount > 0)
       ELSE [b EXCEPT !.pc = "ensured"]]

withToken(p, b, tok, exp) ==
  /\ token' = tok
  /\ tokenExpiryTime' = exp
  /\ proc' = [proc EXCEPT ![p] =
       IF closed
         THEN Settle(b, "closed", NoError)
       ELSE IF mode = "short"
         THEN SendRequest(b, queryAuth(mode, tok))
       ELSE IF needsLogin(tok, exp, now)
         THEN SendLogin(b, b.retryCount > 0)
       ELSE [b EXCEPT !.pc = "ensured"]]

\* api(command, params, action) and request(): both are withToken(.., 0)
CallApi(p) ==
  /\ CanStart(p)
  /\ ops' = ops + 1
  /\ withToken(p, Begin("api", 1), token, tokenExpiryTime)
  /\ UNCHANGED <<mode, tokenLeaseTime, closed, pollers, now, ticks, deviceLease, closeReturned>>
  /\ UNCHANGED others

\* requestMany(requests) with n = requests.length
CallRequestMany(p) ==
  /\ CanStart(p)
  /\ ops' = ops + 1
  /\ \E n \in 0..MaxBatch :
       IF n = 0
         THEN /\ proc' = [proc EXCEPT ![p] = Settle(Begin("many", 0), "value", NoError)]
              /\ UNCHANGED <<token, tokenExpiryTime>>
         ELSE withToken(p, Begin("many", n), token, tokenExpiryTime)
  /\ UNCHANGED <<mode, tokenLeaseTime, closed, pollers, now, ticks, deviceLease, closeReturned>>
  /\ UNCHANGED others

\* login(), called by the user: runs to its await of fetch
CallLogin(p) ==
  /\ CanStart(p)
  /\ ops' = ops + 1
  /\ proc' = [proc EXCEPT ![p] = SendLogin(Begin("login", 0), FALSE)]
  /\ UNCHANGED <<mode, session, closed, pollers, now, ticks, deviceLease, closeReturned>>
  /\ UNCHANGED others

\* login(), from the Login response on; for an implicit login the
\* continuation in ensureToken and withToken
LoginResponse(p) ==
  /\ proc[p].pc = "awaitLogin"
  /\ \E r \in LoginResponses :
       IF r.kind = "throw"
         THEN /\ proc' = [proc EXCEPT ![p] = Settle(@, "error", NoError)]
              /\ UNCHANGED session
       ELSE IF loginError(r) # NoError
         THEN /\ proc' = [proc EXCEPT ![p] = Settle(@, "httpError", loginError(r))]
              /\ UNCHANGED session
       ELSE \E tk \in Tokens :
              /\ token' = tk.name
              /\ tokenLeaseTime' = leaseOf(tk)
              /\ tokenExpiryTime' = expiryOf(now, leaseOf(tk))
              /\ proc' = [proc EXCEPT ![p] =
                   IF @.op = "login" THEN Settle(@, "value", NoError)
                   ELSE [@ EXCEPT !.pc = "ensured"]]
  /\ UNCHANGED <<mode, closed, pollers, now, ops, ticks, deviceLease, closeReturned>>
  /\ UNCHANGED others

\* withToken after `await this.ensureToken()`: apiInternal up to its fetch
SendCommand(p) ==
  /\ proc[p].pc = "ensured"
  /\ proc' = [proc EXCEPT ![p] = SendRequest(@, queryAuth(mode, token))]
  /\ UNCHANGED <<mode, session, closed, pollers, now, ops, ticks, deviceLease, closeReturned>>
  /\ UNCHANGED others

\* apiInternal / apiInternalMany from the response on, then the catch block
\* of withToken / withTokenMany and the map of requestMany
CommandResponse(p) ==
  /\ proc[p].pc = "awaitCmd"
  /\ \E r \in (IF proc[p].op = "poll" THEN PollResponses ELSE ResponsesOf[proc[p].n]) :
       LET e == IF r.kind = "throw" THEN NoError
                ELSE IF proc[p].op = "many" THEN apiInternalManyError(r, "cmd")
                ELSE apiInternalError(r, "cmd")
           f == IF proc[p].op = "many" /\ r.kind # "throw" /\ ok(r)
                  THEN firstFailure(r.data, "cmd") ELSE NoError
           b == [proc[p] EXCEPT
                   !.resps = @ + 1,
                   !.authFails = IF e # NoError /\ isTokenError(e) THEN @ + 1 ELSE @]
       IN
       IF r.kind = "throw"
         THEN /\ proc' = [proc EXCEPT ![p] = Settle(b, "error", NoError)]
              /\ UNCHANGED <<token, tokenExpiryTime>>
       ELSE IF e # NoError /\ mode = "long" /\ shouldRetry(e, b.retryCount)
         THEN withToken(p, [b EXCEPT !.retryCount = @ + 1, !.caught = e], NoToken, 0)
       ELSE IF e # NoError
         THEN /\ proc' = [proc EXCEPT ![p] = Settle(b, "httpError", e)]
              /\ UNCHANGED <<token, tokenExpiryTime>>
       ELSE IF f # NoError
         THEN /\ proc' = [proc EXCEPT ![p] = Settle(b, "httpError", f)]
              /\ UNCHANGED <<token, tokenExpiryTime>>
       ELSE /\ proc' = [proc EXCEPT ![p] = Settle(b, "value", NoError)]
            /\ UNCHANGED <<token, tokenExpiryTime>>
  /\ UNCHANGED <<mode, tokenLeaseTime, closed, pollers, now, ops, ticks, deviceLease, closeReturned>>
  /\ UNCHANGED others

\* logout(), to its return or to the fetch of the Logout command
logout(p, b, isClosed) ==
  proc' = [proc EXCEPT ![p] =
    IF logoutReturnsEarly(token, isClosed)
      THEN (IF b.op = "close" THEN [b EXCEPT !.pc = "awaitClose"]
            ELSE Settle(b, "value", NoError))
      ELSE [b EXCEPT !.pc = "awaitLogout", !.sends = @ + 1, !.envs = @ + 1,
                     !.auth = queryAuth(mode, token)]]

CallLogout(p) ==
  /\ CanStart(p)
  /\ ops' = ops + 1
  /\ logout(p, Begin("logout", 0), closed)
  /\ UNCHANGED <<mode, session, closed, pollers, now, ticks, deviceLease, closeReturned>>
  /\ UNCHANGED others

\* logout() from the response of Logout on: catch, finally
LogoutResponse(p) ==
  /\ proc[p].pc = "awaitLogout"
  /\ \E r \in ResponsesOf[1] :
       proc' = [proc EXCEPT ![p] =
         IF @.op = "close"
           THEN [@ EXCEPT !.pc = "awaitClose", !.resps = @ + 1]
           ELSE Settle([@ EXCEPT !.resps = @ + 1], "value", NoError)]
  /\ token' = NoToken
  /\ tokenExpiryTime' = 0
  /\ UNCHANGED <<mode, tokenLeaseTime, closed, pollers, now, ops, ticks, deviceLease, closeReturned>>
  /\ UNCHANGED others

\* a stop that leaves the interval timer running
stopLeavesTimer(em) ==
  IF ~em.isRunning THEN em
  ELSE [em EXCEPT !.isRunning = FALSE]

\* a close without its early return
closeNeverEarly(isClosed) == FALSE

\* close: the early return
closeReturnsEarly(isClosed) == isClosed

\* ReolinkEventEmitter.stop()
stop(em) ==
  IF ~em.isRunning THEN em
  ELSE [em EXCEPT !.isRunning = FALSE, !.pollTimer = FALSE]

\* createEventEmitter(options)
CreateEventEmitter(e) ==
  /\ ~emitter[e].made
  /\ emitter' = [emitter EXCEPT ![e].made = TRUE]
  /\ eventEmitters' = eventEmitters \cup {e}
  /\ UNCHANGED <<mode, session, closed, now, proc, ops, ticks, deviceLease, closeReturned>>
  /\ UNCHANGED others

\* poll(), to the await of its first api call, as the tick of poller e
poll(p, e) ==
  withToken(p, [Begin("poll", 1) EXCEPT !.em = e, !.left = CallsPerChannel - 1],
            token, tokenExpiryTime)

\* a tick begins: history of the ticks begun after close() returned
tickBegins(em) == [em EXCEPT !.lateTick = @ \/ (closeReturned /\ em.atClose)]

\* ReolinkEventEmitter.start()
StartEmitter(e) ==
  /\ emitter[e].made
  /\ ~emitter[e].isRunning
  /\ \E p \in Procs :
       /\ Takes(p)
       /\ poll(p, e)
  /\ emitter' = [emitter EXCEPT ![e] =
       [tickBegins(@) EXCEPT !.isRunning = TRUE, !.pollTimer = TRUE]]
  /\ UNCHANGED <<mode, tokenLeaseTime, closed, eventEmitters, now, ops, ticks,
                 deviceLease, closeReturned>>
  /\ UNCHANGED others

\* the setInterval callback of start(): the next tick
TimerFire(e) ==
  /\ emitter[e].pollTimer
  /\ \E p \in Procs :
       /\ Takes(p)
       /\ poll(p, e)
  /\ emitter' = [emitter EXCEPT ![e] = tickBegins(@)]
  /\ UNCHANGED <<mode, tokenLeaseTime, closed, eventEmitters, now, ops, ticks,
                 deviceLease, closeReturned>>
  /\ UNCHANGED others

\* checkChannel after an api call has settled: its next api call, or the
\* end of the tick
PollNext(p) ==
  /\ proc[p].op = "poll"
  /\ proc[p].pc = "done"
  /\ proc[p].left > 0
  /\ withToken(p, [Begin("poll", 1) EXCEPT !.em = proc[p].em, !.left = proc[p].left - 1],
               token, tokenExpiryTime)
  /\ UNCHANGED <<mode, tokenLeaseTime, closed, pollers, now, ops, ticks,
                 deviceLease, closeReturned>>
  /\ UNCHANGED others

\* ReolinkEventEmitter.stop(), called by the user
StopEmitter(e) ==
  /\ emitter[e].made
  /\ emitter[e].isRunning
  /\ emitter' = [emitter EXCEPT ![e] = stop(@)]
  /\ UNCHANGED <<mode, session, closed, eventEmitters, now, proc, ops, ticks,
                 deviceLease, closeReturned>>
  /\ UNCHANGED others

\* close(), to its `await this.logout()`
CallClose(p) ==
  /\ CanStart(p)
  /\ ops' = ops + 1
  /\ IF closeReturnsEarly(closed)
       THEN /\ proc' = [proc EXCEPT ![p] = Settle(Begin("close", 0), "value", NoError)]
            /\ UNCHANGED <<closed, pollers>>
       ELSE /\ closed' = TRUE
            /\ emitter' = [e \in Emitters |->
                 IF e \in eventEmitters
                   THEN [stop(emitter[e]) EXCEPT !.atClose = TRUE]
                   ELSE emitter[e]]
            /\ eventEmitters' = {}
            /\ logout(p, Begin("close", 0), TRUE)
  /\ UNCHANGED <<mode, session, now, ticks, deviceLease, closeReturned>>
  /\ UNCHANGED others

\* close() after `await this.logout()`
CloseReturn(p) ==
  /\ proc[p].pc = "awaitClose"
  /\ proc' = [proc EXCEPT ![p] = Settle(@, "value", NoError)]
  /\ closeReturned' = TRUE
  /\ UNCHANGED <<mode, session, closed, pollers, now, ops, ticks, deviceLease>>
  /\ UNCHANGED others

\* Date.now() moves on
Tick ==
  /\ ticks < MaxTicks
  /\ ticks' = ticks + 1
  /\ \E d \in ClockSteps : now' = now + d
  /\ UNCHANGED <<mode, session, closed, pollers, proc, ops, deviceLease, closeReturned>>
  /\ UNCHANGED others

Next ==
  \/ \E p \in Procs : CallApi(p)
  \/ \E p \in Procs : CallLogin(p)
  \/ \E p \in Procs : CallLogout(p)
  \/ \E p \in Procs : CallClose(p)
  \/ \E p \in Procs : LoginResponse(p)
  \/ \E p \in Procs : SendCommand(p)
  \/ \E p \in Procs : CommandResponse(p)
  \/ \E p \in Procs : LogoutResponse(p)
  \/ \E p \in Procs : CloseReturn(p)
  \/ Tick

Spec == Init /\ [][Next]_vars

\* api() and requestMany() called one after the other by one caller
NextCalls ==
  \/ CallApi(1)
  \/ CallRequestMany(1)
  \/ LoginResponse(1)
  \/ SendCommand(1)
  \/ CommandResponse(1)
  \/ Tick

SpecCalls == Init /\ [][NextCalls]_vars

\* a session with pollers: their ticks, and close()
NextEv ==
  \/ \E e \in Emitters : CreateEventEmitter(e)
  \/ \E e \in Emitters : StartEmitter(e)
  \/ \E e \in Emitters : StopEmitter(e)
  \/ \E e \in Emitters : TimerFire(e)
  \/ \E p \in Procs : PollNext(p)
  \/ \E p \in Procs : LoginResponse(p)
  \/ \E p \in Procs : SendCommand(p)
  \/ \E p \in Procs : CommandResponse(p)
  \/ \E p \in Procs : CallClose(p)
  \/ \E p \in Procs : CloseReturn(p)

SpecEv == Init /\ [][NextEv]_vars

(***************************************************************************)
(* The poller's cache: checkChannel for one channel, with the listeners    *)
(* of the poller.  client.api is seen from the poller: it resolves with a  *)
(* value or rejects.                                                       *)
(***************************************************************************)
\* GetMdState: value.state as the device reports it
MdStates == {0, 1}
\* GetAiState, after isStateActive: person and vehicle
AiStates == {[person |-> FALSE, vehicle |-> FALSE],
             [person |-> TRUE, vehicle |-> FALSE],
             [person |-> FALSE, vehicle |-> TRUE]}

\* mdState?.value?.state === 1
motionActive(state) == state = 1

\* a comparison that takes an empty cache for a change
motionChangedOrNew(last, cur) == last = <<>> \/ last[1] # cur

\* lastState.motion !== undefined && lastState.motion !== motionActive
motionChanged(last, cur) == last # <<>> /\ last[1] # cur

\* aiChanged
aiChanged(last, cur) ==
  /\ last # <<>>
  /\ (last[1].person # cur.person \/ last[1].vehicle # cur.vehicle)

\* a stop that keeps the listeners
keepAllListeners(em, ls) == ls

\* stop(): this.removeAllListeners(), behind the early return
removeAllListeners(em, ls) == IF ~em.isRunning THEN ls ELSE {}

\* this.emit(kind, event): delivered to the listeners registered now
emit(kind, active) == [kind |-> kind, to |-> listeners, active |-> <<active>>]

\* poll() for channels = [0]: checkChannel(0) to its first await
checkChannel(s, byStart) ==
  /\ inflight[s].pc = "idle"
  /\ \A t \in TickSlots : t < s => inflight[t].pc # "idle"
  /\ inflight' = [inflight EXCEPT ![s] =
       [pc |-> "awaitMd", ref |-> IF lastStates = 0 THEN s ELSE lastStates,
        byStart |-> byStart]]
  /\ heap' = IF lastStates = 0 THEN [heap EXCEPT ![s] = NoLastState] ELSE heap

\* ReolinkEventEmitter.start()
startPolling ==
  /\ ~emitter[1].isRunning
  /\ \E s \in TickSlots : checkChannel(s, TRUE)
  /\ emitter' = [emitter EXCEPT ![1].isRunning = TRUE, ![1].pollTimer = TRUE]
  /\ emitted' = NoEmit
  /\ pollHist' = [pollHist EXCEPT !.polls = @ + 1, !.last = "start"]
  /\ UNCHANGED <<client, lastStates, listeners>>
  /\ UNCHANGED <<call, sent, world>>

PollStart ==
  /\ pollHist.polls < MaxPolls
  /\ startPolling

\* the setInterval callback
intervalTick ==
  /\ emitter[1].pollTimer
  /\ \E s \in TickSlots : checkChannel(s, FALSE)
  /\ emitted' = NoEmit
  /\ pollHist' = [pollHist EXCEPT !.polls = @ + 1, !.last = "timer"]
  /\ UNCHANGED <<client, emitter, lastStates, listeners>>
  /\ UNCHANGED <<call, sent, world>>

PollTimer ==
  /\ pollHist.polls < MaxPolls
  /\ intervalTick

\* ReolinkEventEmitter.stop()
PollStop ==
  /\ emitter' = [emitter EXCEPT ![1] = stop(@)]
  /\ listeners' = removeAllListeners(emitter[1], listeners)
  /\ emitted' = NoEmit
  /\ pollHist' = [pollHist EXCEPT !.last = "stop",
                                  !.removed = @ \cup (listeners \ listeners')]
  /\ UNCHANGED <<client, lastStates, heap, inflight>>
  /\ UNCHANGED <<call, sent, world>>

\* emitter.on("motion", h); emitter.on("ai", h)
PollOn ==
  /\ pollHist.ons < MaxListeners
  /\ listeners' = listeners \cup {pollHist.ons + 1}
  /\ emitted' = NoEmit
  /\ pollHist' = [pollHist EXCEPT !.ons = @ + 1, !.last = "on"]
  /\ UNCHANGED <<client, emitter, lastStates, heap, inflight>>
  /\ UNCHANGED <<call, sent, world>>

\* checkChannel from the result of GetMdState to the await of GetAiState
PollMdState(s) ==
  /\ inflight[s].pc = "awaitMd"
  /\ inflight' = [inflight EXCEPT ![s].pc = "awaitAi"]
  /\ \/ /\ UNCHANGED heap
        /\ emitted' = NoEmit
        /\ pollHist' = [pollHist EXCEPT !.last = "md"]
     \/ \E state \in MdStates :
          LET ref == inflight[s].ref
              cur == motionActive(state)
              chg == motionChanged(heap[ref].motion, cur)
          IN /\ heap' = [heap EXCEPT ![ref].motion = <<cur>>]
             /\ emitted' = IF chg THEN emit("motion", cur) ELSE NoEmit
             /\ pollHist' = [pollHist EXCEPT !.last = "md",
                    !.startTickEmitted = @ \/ (chg /\ inflight[s].byStart),
                    !.motion = IF chg THEN <<cur>> ELSE @]
  /\ UNCHANGED <<client, emitter, lastStates, listeners>>
  /\ UNCHANGED <<call, sent, world>>

\* checkChannel from the result of GetAiState to its end
PollAiState(s) ==
  /\ inflight[s].pc = "awaitAi"
  /\ inflight' = [inflight EXCEPT ![s] = NoCheck]
  /\ lastStates' = inflight[s].ref
  /\ \/ /\ UNCHANGED heap
        /\ emitted' = NoEmit
        /\ pollHist' = [pollHist EXCEPT !.last = "ai"]
     \/ \E cur \in AiStates :
          LET ref == inflight[s].ref
              chg == aiChanged(heap[ref].ai, cur)
          IN /\ heap' = [heap EXCEPT ![ref].ai = <<cur>>]
             /\ emitted' = IF chg THEN emit("ai", cur) ELSE NoEmit
             /\ pollHist' = [pollHist EXCEPT !.last = "ai",
                    !.startTickEmitted = @ \/ (chg /\ inflight[s].byStart)]
  /\ UNCHANGED <<client, emitter, listeners>>
  /\ UNCHANGED <<call, sent, world>>

NextPoll ==
  \/ PollStart
  \/ PollTimer
  \/ PollStop
  \/ PollOn
  \/ \E s \in TickSlots : PollMdState(s)
  \/ \E s \in TickSlots : PollAiState(s)

\* a poller on a client in token-session mode
InitPoll == Init /\ mode = "long" /\ deviceLease = <<>>

SpecPoll == InitPoll /\ [][NextPoll]_vars

\* a poller left running: its ticks, which may overlap
OverlapStart ==
  /\ pollHist.polls < MaxOverlapPolls
  /\ startPolling

OverlapTimer ==
  /\ pollHist.polls < MaxOverlapPolls
  /\ intervalTick

NextOverlap ==
  \/ OverlapStart
  \/ OverlapTimer
  \/ \E s \in TickSlots : PollMdState(s)
  \/ \E s \in TickSlots : PollAiState(s)

SpecOverlap == InitPoll /\ [][NextOverlap]_vars

(***************************************************************************)
(* PTZ guard: PresetsModule.setGuard, setPtzGuard, toggleGuardMode.  The   *)
(* client is seen through client.api / client.request: one device          *)
(* response per call, turned into a value or an error by apiInternal.      *)
(* An optional field is <<>> when absent and <<v>> when present.           *)
(***************************************************************************)
\* the timeout PresetsModule.setGuard accepts
GuardTimeout == 60
\* a timeout other than the accepted one, and one a device may report
OtherTimeouts == {30, 90}

\* error envelopes of a PTZ command: the vendor codes handlePtzError names,
\* one it does not, each with the detail the device wrote
PtzEnvelopes ==
  {[code |-> 1, rspCode |-> c, detail |-> <<"r","a","w">>] : c \in {-1, -4, -9, -13}}

\* what fetch gives back for a PTZ command
PtzResponses ==
  {[kind |-> "throw", status |-> 0, data |-> <<>>],
   [kind |-> "http", status |-> 500, data |-> <<>>],
   [kind |-> "http", status |-> 200, data |-> <<OkEnvelope>>]}
    \cup {[kind |-> "http", status |-> 200, data |-> <<e>>] : e \in PtzEnvelopes}

\* the value of a successful write: with or without an "error" member
WriteValues == {[error |-> <<>>]} \cup {[error |-> <<c>>] : c \in {0, -1, -4, -9, -13}}

\* the value of GetPtzGuard: with or without a PtzGuard member
GuardValues ==
  {<<>>} \cup {<<[benable |-> b, timeout |-> t]>> :
                 b \in {0, 1}, t \in {<<>>, <<GuardTimeout>>} \cup {<<x>> : x \in OtherTimeouts}}

\* a rejection that is not a ReolinkHttpError (fetch failed, client closed)
PlainError(msg) == [code |-> 0, rspCode |-> 0, detail |-> <<msg>>, command |-> ""]

\* handlePtzError(rspCode, command): the error it throws
handlePtzError(rspCode, command) ==
  IF rspCode = 0
    THEN PlainError("handlePtzError called with success code (0) - this should not happen")
  ELSE IF rspCode = -1
    THEN [code |-> 1, rspCode |-> -1, detail |-> <<"Invalid preset or position">>,
          command |-> command]
  ELSE IF rspCode = -4
    THEN [code |-> 1, rspCode |-> -4, detail |-> <<"Parameter format error">>,
          command |-> command]
  ELSE IF rspCode = -9
    THEN [code |-> 1, rspCode |-> -9, detail |-> <<"Not supported on this model">>,
          command |-> command]
  ELSE [code |-> 1, rspCode |-> rspCode, detail |-> <<"Unknown PTZ error", ToString(rspCode)>>,
        command |-> command]

\* the try/catch around a PTZ write: the error the caller gets for device
\* response r whose value, when it has one, is v; NoError when it resolves
ptzWriteError(r, v, command) ==
  IF r.kind = "throw" THEN PlainError("fetch failed")
  ELSE IF apiInternalError(r, command) # NoError THEN apiInternalError(r, command)
  ELSE IF v.error # <<>> THEN handlePtzError(v.error[1], command)
  ELSE NoError

\* a call settles with error e, or with a value when e is NoError
Return(c, e) ==
  [c EXCEPT !.pc = "done",
            !.out = IF e = NoError THEN "value"
                    ELSE IF e.code = 0 THEN "error" ELSE "httpError",
            !.err = e]

\* a call begins
Enter(fn, arg) == [NoCall EXCEPT !.fn = fn, !.arg = arg]
CanCall == call.pc = "idle"

Request(cmd, param) == [cmd |-> cmd, param |-> param]

\* a setGuard that takes any timeout
setGuardAnyTimeout(timeout) == FALSE

\* PresetsModule.setGuard: timeout !== 60
setGuardRejects(timeout) == timeout # GuardTimeout

\* PresetsModule.setGuard: the PtzGuard it sends
setGuardPayload(options, timeout) ==
  [benable |-> IF options.enable = <<>> THEN <<>>
               ELSE IF options.enable[1] THEN <<1>> ELSE <<0>>,
   bexistPos |-> IF options.setCurrentAsGuard THEN <<1>> ELSE <<>>,
   timeout |-> <<timeout>>,
   cmdStr |-> <<IF options.goToGuardNow THEN "toPos" ELSE "setPos">>,
   bSaveCurrentPos |-> <<IF options.setCurrentAsGuard THEN 1 ELSE 0>>]

\* setPtzGuard: guardConfig
guardConfig(options) ==
  [benable |-> <<IF options.benable = <<>> THEN 0 ELSE options.benable[1]>>,
   bexistPos |-> options.bexistPos,
   timeout |-> <<IF options.timeout = <<>> THEN GuardTimeout ELSE options.timeout[1]>>,
   cmdStr |-> <<IF options.cmdStr = <<>> THEN "setPos" ELSE options.cmdStr[1]>>,
   bSaveCurrentPos |-> <<IF options.bSaveCurrentPos = <<>> THEN 1
                         ELSE options.bSaveCurrentPos[1]>>]

\* options of setPtzGuard with benable and timeout only
GuardOptions(benable, timeout) ==
  [benable |-> benable, timeout |-> timeout, cmdStr |-> <<>>,
   bSaveCurrentPos |-> <<>>, bexistPos |-> <<>>]

\* getPtzGuard: the configuration it returns for value v
getPtzGuard(v) ==
  IF v # <<>> THEN [benable |-> v[1].benable, timeout |-> v[1].timeout]
  ELSE [benable |-> 0, timeout |-> <<GuardTimeout>>]

\* a toggle that writes back what it read
toggleKeepsState(current) ==
  GuardOptions(<<current.benable>>,
               <<IF current.timeout = <<>> THEN GuardTimeout ELSE current.timeout[1]>>)

\* a toggle that always enables
toggleAlwaysOn(current) ==
  GuardOptions(<<1>>,
               <<IF current.timeout = <<>> THEN GuardTimeout ELSE current.timeout[1]>>)

\* toggleGuardMode: the options it hands to setPtzGuard
toggleOptions(current) ==
  GuardOptions(<<IF current.benable = 1 THEN 0 ELSE 1>>,
               <<IF current.timeout = <<>> THEN GuardTimeout ELSE current.timeout[1]>>)

\* PresetsModule.setGuard(channel, options)
CallSetGuard ==
  /\ CanCall
  /\ \E ts \in {<<>>, <<GuardTimeout>>} \cup {<<x>> : x \in OtherTimeouts},
        en \in {<<>>, <<TRUE>>, <<FALSE>>}, cur \in BOOLEAN, go \in BOOLEAN :
       LET options == [timeoutSec |-> ts, enable |-> en, setCurrentAsGuard |-> cur,
                       goToGuardNow |-> go]
           timeout == IF ts = <<>> THEN GuardTimeout ELSE ts[1]
       IN IF setGuardRejects(timeout)
            THEN /\ call' = Return(Enter("setGuard", options),
                                   PlainError("Reolink guard timeout currently supports only 60 seconds"))
                 /\ sent' = <<>>
            ELSE /\ call' = [Enter("setGuard", options) EXCEPT !.pc = "awaitSet"]
                 /\ sent' = <<Request("SetPtzGuard", setGuardPayload(options, timeout))>>
  /\ UNCHANGED <<world, client, emitter, poller>>

\* setPtzGuard(client, channel, options), to its await
CallSetPtzGuard ==
  /\ CanCall
  /\ \E be \in {<<>>, <<0>>, <<1>>},
        t \in {<<>>, <<GuardTimeout>>} \cup {<<x>> : x \in OtherTimeouts},
        cs \in {<<>>, <<"toPos">>} :
       LET options == [GuardOptions(be, t) EXCEPT !.cmdStr = cs] IN
       /\ call' = [Enter("setPtzGuard", options) EXCEPT !.pc = "awaitSet"]
       /\ sent' = <<Request("SetPtzGuard", guardConfig(options))>>
  /\ UNCHANGED <<world, client, emitter, poller>>

\* toggleGuardMode(client, channel), to the await in getPtzGuard
CallToggleGuardMode ==
  /\ CanCall
  /\ call' = [Enter("toggleGuardMode", <<>>) EXCEPT !.pc = "awaitGet"]
  /\ sent' = <<Request("GetPtzGuard", <<>>)>>
  /\ UNCHANGED <<world, client, emitter, poller>>

\* toggleGuardMode from the result of GetPtzGuard to the await in setPtzGuard
GetPtzGuardResponse ==
  /\ call.pc = "awaitGet"
  /\ call.fn = "toggleGuardMode"
  /\ \E r \in PtzResponses, v \in GuardValues :
       IF r.kind = "throw" \/ apiInternalError(r, "GetPtzGuard") # NoError
         THEN /\ call' = Return(call, IF r.kind = "throw" THEN PlainError("fetch failed")
                                      ELSE apiInternalError(r, "GetPtzGuard"))
              /\ UNCHANGED sent
         ELSE /\ call' = [call EXCEPT !.pc = "awaitSet", !.cur = <<v>>]
              /\ sent' = Append(sent, Request("SetPtzGuard",
                                  guardConfig(toggleOptions(getPtzGuard(v)))))
  /\ UNCHANGED <<world, client, emitter, poller>>

\* setPtzGuard and setGuard from the result of SetPtzGuard on
SetPtzGuardResponse ==
  /\ call.pc = "awaitSet"
  /\ call.fn \in {"setGuard", "setPtzGuard", "toggleGuardMode"}
  /\ \E r \in PtzResponses, v \in WriteValues :
       call' = Return([call EXCEPT !.resp = <<r>>],
                 IF call.fn = "setGuard"
                   THEN (IF r.kind = "throw" THEN PlainError("fetch failed")
                         ELSE apiInternalError(r, "SetPtzGuard"))
                   ELSE ptzWriteError(r, v, "SetPtzGuard"))
  /\ UNCHANGED <<world, client, emitter, poller, sent>>

NextGuard ==
  \/ CallSetGuard
  \/ CallSetPtzGuard
  \/ CallToggleGuardMode
  \/ GetPtzGuardResponse
  \/ SetPtzGuardResponse

InitGuard == Init /\ mode = "long" /\ deviceLease = <<>>

SpecGuard == InitGuard /\ [][NextGuard]_vars

(***************************************************************************)
(* toggleGuardMode against a device that keeps its guard: two callers on   *)
(* one channel.  The device answers GetPtzGuard with the guard it holds    *)
(* and applies a SetPtzGuard it accepts.                                   *)
(***************************************************************************)
\* the guard of the device is configured by other means, before any toggle
DeviceConfigured ==
  /\ deviceGuard = <<>>
  /\ \A i \in Togglers : toggler[i].pc = "idle"
  /\ deviceGuard' \in GuardValues \ {<<>>}
  /\ UNCHANGED <<client, emitter, poller, call, sent, toggler>>

\* toggleGuardMode(client, channel) by caller i, to the await in getPtzGuard
CallToggle(i) ==
  /\ toggler[i].pc = "idle"
  /\ \A j \in Togglers : j < i => toggler[j].pc # "idle"
  /\ toggler' = [toggler EXCEPT ![i] =
       [NoToggle EXCEPT
          !.pc = "awaitGet",
          !.order = 1 + Cardinality({j \in Togglers : toggler[j].pc # "idle"}),
          !.before = getPtzGuard(deviceGuard).benable,
          !.after = {j \in Togglers : toggler[j].pc = "done"}]]
  /\ UNCHANGED <<client, emitter, poller, call, sent, deviceGuard>>

\* the device answers GetPtzGuard; toggleGuardMode of caller i goes on to
\* the await in setPtzGuard
ToggleRead(i) ==
  /\ toggler[i].pc = "awaitGet"
  /\ \E r \in PtzResponses :
       toggler' = [toggler EXCEPT ![i] =
         IF r.kind = "throw" \/ apiInternalError(r, "GetPtzGuard") # NoError
           THEN [@ EXCEPT !.pc = "done"]
           ELSE [@ EXCEPT !.pc = "awaitSet", !.read = <<getPtzGuard(deviceGuard)>>,
                          !.writing = <<guardConfig(toggleOptions(getPtzGuard(deviceGuard)))>>]]
  /\ UNCHANGED <<client, emitter, poller, call, sent, deviceGuard>>

\* the device answers SetPtzGuard, applying it when it accepts it; a write
\* whose response is lost may or may not have been applied
ToggleWrite(i) ==
  /\ toggler[i].pc = "awaitSet"
  /\ \E r \in PtzResponses, applied \in BOOLEAN :
       LET e == ptzWriteError(r, [error |-> <<>>], "SetPtzGuard")
           w == toggler[i].writing[1]
       IN /\ applied = IF r.kind = "throw" THEN applied ELSE e = NoError
          /\ toggler' = [toggler EXCEPT ![i] = [@ EXCEPT !.pc = "done", !.ok = (e = NoError)]]
          /\ deviceGuard' = IF applied
                              THEN <<[benable |-> w.benable[1], timeout |-> w.timeout]>>
                              ELSE deviceGuard
  /\ UNCHANGED <<client, emitter, poller, call, sent>>

NextToggle ==
  \/ DeviceConfigured
  \/ \E i \in Togglers : CallToggle(i)
  \/ \E i \in Togglers : ToggleRead(i)
  \/ \E i \in Togglers : ToggleWrite(i)

SpecToggle == InitGuard /\ [][NextToggle]_vars

(***************************************************************************)
(* PTZ patrol: setPtzPatrol, startPatrol, stopPatrol                       *)
(***************************************************************************)
\* sequences of at most n elements of S
RECURSIVE SeqsUpTo(_, _)
SeqsUpTo(S, n) ==
  IF n = 0 THEN {<<>>}
  ELSE SeqsUpTo(S, n - 1) \cup
       {Append(q, x) : q \in {t \in SeqsUpTo(S, n - 1) : Len(t) = n - 1}, x \in S}

\* waypoints of the legacy formats: {presetId, speed, stayTime}
PatrolPoints ==
  {[presetId |-> 1, speed |-> 5, stayTime |-> 3],
   [presetId |-> 2, speed |-> 4, stayTime |-> 6]}

\* entries of a preset array: {id, speed, dwellTime}, and one without
\* dwellTime
PatrolPresets ==
  {[id |-> 7, speed |-> <<32>>, dwellTime |-> <<10>>],
   [id |-> 8, speed |-> <<32>>, dwellTime |-> <<>>]}

\* the configurations handed to setPtzPatrol: every field but enable may
\* be absent; enable is a number or a boolean, written as JavaScript
\* writes it
PatrolConfigs ==
  [preset : {<<>>} \cup {<<q>> : q \in SeqsUpTo(PatrolPresets, MaxPoints)},
   points : {<<>>} \cup {<<q>> : q \in SeqsUpTo(PatrolPoints, MaxPoints)},
   path : {<<>>} \cup {<<q>> : q \in SeqsUpTo(PatrolPoints, MaxPoints)},
   id : {<<>>, <<3>>},
   name : {<<>>, <<"cruise1">>},
   enable : {"1", "true", "false"}]

\* typeof enable === "boolean" ? (enable ? 1 : 0) : enable
enableValue(enable) == IF enable = "false" THEN 0 ELSE 1

\* "id" in firstPreset && "speed" in firstPreset && "dwellTime" in firstPreset
hasRlcPresetStructure(firstPreset) ==
  firstPreset.speed # <<>> /\ firstPreset.dwellTime # <<>>

\* "preset" in config && Array.isArray(config.preset) && config.preset.length > 0
hasPresetArray(config) == config.preset # <<>> /\ Len(config.preset[1]) > 0

\* setPtzPatrol: the branch it takes, 1 (native preset array), 2 (preset
\* array with a name), 3 (points), 4 (path), 5 (passed through)
patrolCase(config) ==
  IF hasPresetArray(config) /\ config.name = <<>> /\ config.id # <<>>
       /\ hasRlcPresetStructure(config.preset[1][1]) THEN 1
  ELSE IF hasPresetArray(config) /\ config.name # <<>> THEN 2
  ELSE IF config.points # <<>> /\ config.id # <<>> THEN 3
  ELSE IF config.path # <<>> THEN 4
  ELSE 5

\* points.map((p) => ({id: p.presetId, speed: p.speed, dwellTime: p.stayTime}))
convertPoints(points) ==
  [i \in 1..Len(points) |->
     [id |-> points[i].presetId, speed |-> <<points[i].speed>>,
      dwellTime |-> <<points[i].stayTime>>]]

\* the parameter of the SetPtzPatrol command: wrapped is TRUE for
\* {channel, PtzPatrol: {channel, id, enable, preset}}, FALSE for the
\* configuration itself with the channel set
patrolParam(config) ==
  LET c == patrolCase(config)
      configId == IF config.id = <<>> THEN 0 ELSE config.id[1]
  IN IF c \in {1, 3, 4}
       THEN [wrapped |-> TRUE, channel |-> <<0>>, id |-> <<configId>>,
             enable |-> enableValue(config.enable),
             preset |-> <<IF c = 1 THEN config.preset[1]
                          ELSE IF c = 3 THEN convertPoints(config.points[1])
                          ELSE convertPoints(config.path[1])>>,
             points |-> <<>>, path |-> <<>>, name |-> <<>>]
       ELSE [wrapped |-> FALSE, channel |-> <<0>>, id |-> config.id,
             enable |-> enableValue(config.enable),
             preset |-> config.preset, points |-> config.points,
             path |-> config.path, name |-> config.name]

\* setPtzPatrol(client, channel, config), to its await
CallSetPtzPatrol ==
  /\ CanCall
  /\ \E config \in PatrolConfigs :
       /\ call' = [Enter("setPtzPatrol", config) EXCEPT !.pc = "awaitSet",
                                                        !.cur = <<patrolCase(config)>>]
       /\ sent' = <<Request("SetPtzPatrol", patrolParam(config))>>
  /\ UNCHANGED <<world, client, emitter, poller>>

\* startPatrol / stopPatrol (client, channel, patrolId), to their await
CallPatrolCtrl ==
  /\ CanCall
  /\ \E fn \in {"startPatrol", "stopPatrol"}, patrolId \in {0, 3} :
       /\ call' = [Enter(fn, patrolId) EXCEPT !.pc = "awaitSet"]
       /\ sent' = <<Request("PtzCtrl",
                      [op |-> IF fn = "startPatrol" THEN "StartPatrol" ELSE "StopPatrol",
                       id |-> patrolId])>>
  /\ UNCHANGED <<world, client, emitter, poller>>

\* setPtzPatrol, startPatrol, stopPatrol from the result of their command on
PatrolResponse ==
  /\ call.pc = "awaitSet"
  /\ call.fn \in {"setPtzPatrol", "startPatrol", "stopPatrol"}
  /\ \E r \in PtzResponses, v \in WriteValues :
       call' = Return([call EXCEPT !.resp = <<r>>],
                 IF call.fn # "setPtzPatrol" THEN ptzWriteError(r, v, "PtzCtrl")
                 ELSE IF call.cur[1] = 5
                   THEN (IF r.kind = "throw" THEN PlainError("fetch failed")
                         ELSE apiInternalError(r, "SetPtzPatrol"))
                 ELSE ptzWriteError(r, v, "SetPtzPatrol"))
  /\ UNCHANGED <<world, client, emitter, poller, sent>>

\* the PTZ functions whose errors go through handlePtzError
NextPtz ==
  \/ CallSetPtzGuard
  \/ SetPtzGuardResponse
  \/ CallSetPtzPatrol
  \/ CallPatrolCtrl
  \/ PatrolResponse

SpecPtz == InitGuard /\ [][NextPtz]_vars

(***************************************************************************)
(* Detection zones: PresetsModule.setMdZone and setAiZone                  *)
(***************************************************************************)
\* the Grid Areas handed in: width, height and a bit string
GridAreas ==
  [width : {1, 2}, height : {1, 2}, bits : SeqsUpTo({"0", "1"}, MaxBits)]

SUPPORTED_AI_TYPES == {"people", "vehicle", "dog_cat", "face"}
\* the ai_type arguments: the supported ones and one that is not
AiTypeArgs == SUPPORTED_AI_TYPES \cup {"package"}

\* the value of GetMdAlarm: <<>> for a value that is no object, else the
\* MdAlarm configuration, with the fields beside the zone: the device's
\* channel, a sensitivity, and in scope a field that is not part of the grid
MdAlarms ==
  {<<>>} \cup
  {<<[channel |-> 9, sensitivity |-> sv, scope |-> sc, table |-> <<"0">>]>> :
     sv \in {<<>>, <<50>>},
     sc \in {<<>>, <<[width |-> 1, height |-> 1, table |-> <<"0">>, extra |-> <<"x">>]>>}}

\* a size check that accepts every bit string
buildScopeAcceptsAll(area) == FALSE

\* buildScope: area.bits.length !== area.width * area.height
buildScopeRejects(area) == Len(area.bits) # area.width * area.height

\* buildScope(area): the scope it returns
buildScope(area) ==
  [width |-> area.width, height |-> area.height, cols |-> area.width,
   rows |-> area.height, table |-> area.bits, extra |-> <<>>]

\* setAiZone: the two checks before the request
aiZoneRejects(ai_type, area) ==
  \/ ai_type \notin SUPPORTED_AI_TYPES
  \/ Len(area.bits) # area.width * area.height

\* setMdZone: the payload it starts from
minimalPayload(area) ==
  [channel |-> 0, sensitivity |-> <<>>, scope |-> buildScope(area), table |-> area.bits]

\* a write that never merges
mergeNothing(mdAlarm, area) == minimalPayload(area)

\* setMdZone: {...mdAlarm, channel, scope: {...mdAlarm.scope, ...scope}, table}
mergePayload(mdAlarm, area) ==
  IF mdAlarm = <<>> THEN minimalPayload(area)
  ELSE [channel |-> 0,
        sensitivity |-> mdAlarm[1].sensitivity,
        scope |-> [buildScope(area) EXCEPT
                     !.extra = IF mdAlarm[1].scope = <<>> THEN <<>>
                               ELSE mdAlarm[1].scope[1].extra],
        table |-> area.bits]

\* setMdZone(channel, area), to the await of GetMdAlarm
CallSetMdZone ==
  /\ CanCall
  /\ \E area \in GridAreas :
       IF buildScopeRejects(area)
         THEN /\ call' = Return(Enter("setMdZone", [area |-> area]),
                                PlainError("Grid area bitstring size mismatch"))
              /\ sent' = <<>>
         ELSE /\ call' = [Enter("setMdZone", [area |-> area]) EXCEPT !.pc = "awaitGet"]
              /\ sent' = <<Request("GetMdAlarm", <<>>)>>
  /\ UNCHANGED <<world, client, emitter, poller>>

\* setAiZone(channel, ai_type, area), to its await
CallSetAiZone ==
  /\ CanCall
  /\ \E area \in GridAreas, ai_type \in AiTypeArgs :
       LET arg == [area |-> area, ai_type |-> ai_type] IN
       IF aiZoneRejects(ai_type, area)
         THEN /\ call' = Return(Enter("setAiZone", arg),
                                PlainError(IF ai_type \notin SUPPORTED_AI_TYPES
                                             THEN "Unsupported AI type"
                                             ELSE "Invalid AI zone bitstring length"))
              /\ sent' = <<>>
         ELSE /\ call' = [Enter("setAiZone", arg) EXCEPT !.pc = "awaitSet"]
              /\ sent' = <<Request("SetAlarmArea",
                             [ai_type |-> ai_type, width |-> area.width,
                              height |-> area.height, area |-> area.bits])>>
  /\ UNCHANGED <<world, client, emitter, poller>>

\* setMdZone from the result of GetMdAlarm to the await of SetMdAlarm
GetMdAlarmResponse ==
  /\ call.pc = "awaitGet"
  /\ call.fn = "setMdZone"
  /\ \E r \in PtzResponses, mdAlarm \in MdAlarms :
       LET e == IF r.kind = "throw" THEN NoError ELSE apiInternalError(r, "GetMdAlarm") IN
       IF e # NoError
         THEN /\ call' = Return([call EXCEPT !.resp = <<r>>], e)
              /\ UNCHANGED sent
         ELSE /\ call' = [call EXCEPT !.pc = "awaitSet", !.resp = <<r>>,
                             !.cur = IF r.kind = "throw" THEN <<>> ELSE <<mdAlarm>>]
              /\ sent' = Append(sent, Request("SetMdAlarm",
                             IF r.kind = "throw" THEN minimalPayload(call.arg.area)
                             ELSE mergePayload(mdAlarm, call.arg.area)))
  /\ UNCHANGED <<world, client, emitter, poller>>

\* setMdZone and setAiZone from the result of their write on
ZoneWriteResponse ==
  /\ call.pc = "awaitSet"
  /\ call.fn \in {"setMdZone", "setAiZone"}
  /\ \E r \in PtzResponses :
       call' = Return(call, IF r.kind = "throw" THEN PlainError("fetch failed")
                            ELSE apiInternalError(r, sent[Len(sent)].cmd))
  /\ UNCHANGED <<world, client, emitter, poller, sent>>

NextZones ==
  \/ CallSetMdZone
  \/ CallSetAiZone
  \/ GetMdAlarmResponse
  \/ ZoneWriteResponse

SpecZones == InitGuard /\ [][NextZones]_vars

(***************************************************************************)
(* Zones of a preset: PresetsModule.setMasks, applyZonesForPreset,         *)
(* gotoPreset, gotoPresetWithZones                                         *)
(***************************************************************************)
\* gotoPreset: opts.settleMs ?? DEFAULT_SETTLE_MS
DEFAULT_SETTLE_MS == 400

\* the grids of a PresetZones: one that fits and one that does not
ZoneAreas ==
  {[width |-> 1, height |-> 1, bits |-> <<"1">>],
   [width |-> 2, height |-> 1, bits |-> <<"1">>]}

\* one part of a PresetZones, as a step of applyZonesForPreset
ZoneStep(kind, ai_type, area, masks) ==
  [kind |-> kind, ai_type |-> ai_type, area |-> area, masks |-> masks]

\* Object.entries(zones.ai): [type, area | undefined]
AiEntries ==
  {ZoneStep("ai", t, a, <<>>) :
     t \in {"people", "vehicle", "package"}, a \in {<<>>} \cup {<<g>> : g \in ZoneAreas}}

\* PresetZones: masks, md and ai, each absent (<<>>) or present; the keys
\* of zones.ai are distinct
PresetZones ==
  [masks : {<<>>, << <<>> >>, << <<"m">> >>},
   md : {<<>>} \cup {<<g>> : g \in ZoneAreas},
   ai : {<<>>} \cup
        {<<q>> : q \in {t \in SeqsUpTo(AiEntries, MaxAi) :
                          \A i, j \in 1..Len(t) : i # j => t[i].ai_type # t[j].ai_type}}]

\* the entries of zones.ai that have an area (if (!area) continue)
RECURSIVE withArea(_)
withArea(entries) ==
  IF entries = <<>> THEN <<>>
  ELSE (IF Head(entries).area = <<>> THEN <<>> ELSE <<Head(entries)>>)
         \o withArea(Tail(entries))

\* an order that pushes the motion grid before the masks
zoneStepsMdFirst(zones) ==
  (IF zones.md # <<>> THEN <<ZoneStep("md", "", zones.md, <<>>)>> ELSE <<>>)
    \o (IF zones.masks # <<>> THEN <<ZoneStep("masks", "", <<>>, zones.masks)>> ELSE <<>>)
    \o (IF zones.ai # <<>> THEN withArea(zones.ai[1]) ELSE <<>>)

\* applyZonesForPreset: the setters it calls, in order
zoneSteps(zones) ==
  (IF zones.masks # <<>> THEN <<ZoneStep("masks", "", <<>>, zones.masks)>> ELSE <<>>)
    \o (IF zones.md # <<>> THEN <<ZoneStep("md", "", zones.md, <<>>)>> ELSE <<>>)
    \o (IF zones.ai # <<>> THEN withArea(zones.ai[1]) ELSE <<>>)

\* where a call of applyZonesForPreset or gotoPresetWithZones stands: k is
\* the setter it is in, zones the PresetZones it applies; history: answered
\* counts the device responses taken, move is the response to PtzCtrl,
\* delayed tells that the settle delay has elapsed, provided counts the
\* calls of zonesProvider, providedAt is the number of commands sent before
\* the call of zonesProvider, given the preset id handed to it
NoProgress ==
  [k |-> 0, zones |-> <<>>, answered |-> 0, move |-> <<>>, delayed |-> FALSE,
   provided |-> 0, providedAt |-> 0, given |-> <<>>]

\* applyZonesForPreset enters its k-th setter: setMasks, setMdZone or
\* setAiZone to their first await, or their local error; past the last
\* setter it returns
startStep(c, k) ==
  LET steps == zoneSteps(c.cur[1].zones[1])
      c1 == [c EXCEPT !.cur[1].k = k]
  IN IF k > Len(steps) THEN Return(c1, NoError)
     ELSE IF steps[k].kind = "masks" THEN [c1 EXCEPT !.pc = "awaitMask"]
     ELSE IF steps[k].kind = "md"
       THEN (IF buildScopeRejects(steps[k].area[1])
               THEN Return(c1, PlainError("Grid area bitstring size mismatch"))
               ELSE [c1 EXCEPT !.pc = "awaitGet"])
     ELSE (IF aiZoneRejects(steps[k].ai_type, steps[k].area[1])
             THEN Return(c1, PlainError(IF steps[k].ai_type \notin SUPPORTED_AI_TYPES
                                          THEN "Unsupported AI type"
                                          ELSE "Invalid AI zone bitstring length"))
             ELSE [c1 EXCEPT !.pc = "awaitAi"])

\* the command that goes out when the call has come to stand as c
stepRequest(c) ==
  IF c.pc \notin {"awaitMask", "awaitGet", "awaitAi"} THEN <<>>
  ELSE LET st == zoneSteps(c.cur[1].zones[1])[c.cur[1].k] IN
       IF c.pc = "awaitMask"
         THEN <<Request("SetMask", [enable |-> IF Len(st.masks[1]) > 0 THEN 1 ELSE 0,
                                    area |-> st.masks[1]])>>
       ELSE IF c.pc = "awaitGet" THEN <<Request("GetMdAlarm", <<>>)>>
       ELSE <<Request("SetAlarmArea",
                [ai_type |-> st.ai_type, width |-> st.area[1].width,
                 height |-> st.area[1].height, area |-> st.area[1].bits])>>

ZoneFns == {"applyZonesForPreset", "gotoPresetWithZones"}

\* applyZonesForPreset(channel, presetId, zones), to its first await
CallApplyZonesForPreset ==
  /\ CanCall
  /\ \E zones \in PresetZones :
       call' = startStep([Enter("applyZonesForPreset", [zones |-> zones]) EXCEPT
                            !.cur = <<[NoProgress EXCEPT !.zones = <<zones>>]>>], 1)
  /\ sent' = stepRequest(call')
  /\ UNCHANGED <<world, client, emitter, poller>>

\* setMasks, setMdZone (its write) and setAiZone from the response on, and
\* applyZonesForPreset to its next await
ZoneStepResponse ==
  /\ call.fn \in ZoneFns
  /\ call.pc \in {"awaitMask", "awaitSet", "awaitAi"}
  /\ \E r \in PtzResponses :
       LET e == IF r.kind = "throw" THEN PlainError("fetch failed")
                ELSE apiInternalError(r, sent[Len(sent)].cmd)
           c == [call EXCEPT !.cur[1].answered = @ + 1]
       IN call' = IF e # NoError THEN Return(c, e) ELSE startStep(c, c.cur[1].k + 1)
  /\ sent' = sent \o stepRequest(call')
  /\ UNCHANGED <<world, client, emitter, poller>>

\* setMdZone within applyZonesForPreset, from the result of GetMdAlarm to
\* the await of SetMdAlarm
ZoneGetResponse ==
  /\ call.fn \in ZoneFns
  /\ call.pc = "awaitGet"
  /\ \E r \in PtzResponses, mdAlarm \in MdAlarms :
       LET e == IF r.kind = "throw" THEN NoError ELSE apiInternalError(r, "GetMdAlarm")
           c == [call EXCEPT !.cur[1].answered = @ + 1]
           area == zoneSteps(call.cur[1].zones[1])[call.cur[1].k].area[1]
       IN IF e # NoError
            THEN /\ call' = Return(c, e)
                 /\ UNCHANGED sent
            ELSE /\ call' = [c EXCEPT !.pc = "awaitSet"]
                 /\ sent' = Append(sent, Request("SetMdAlarm",
                                IF r.kind = "throw" THEN minimalPayload(area)
                                ELSE mergePayload(mdAlarm, area)))
  /\ UNCHANGED <<world, client, emitter, poller>>

\* a move that never waits
needsNoDelay(settleMs) == FALSE

\* gotoPreset: if (settleMs > 0) await delay(settleMs)
needsDelay(settleMs) == settleMs > 0

\* gotoPreset: Math.max(1, Math.min(64, opts.speed)), left out when absent
speedOf(opts) ==
  IF opts.speed = <<>> THEN <<>>
  ELSE <<IF opts.speed[1] > 64 THEN 64 ELSE IF opts.speed[1] < 1 THEN 1 ELSE opts.speed[1]>>

\* gotoPreset: opts.settleMs ?? DEFAULT_SETTLE_MS
settleOf(opts) == IF opts.settleMs = <<>> THEN DEFAULT_SETTLE_MS ELSE opts.settleMs[1]

\* gotoPresetWithZones: zonesProvider(presetId) is called
callProvider(c) ==
  [c EXCEPT !.pc = "awaitProvider", !.cur[1].provided = @ + 1,
            !.cur[1].providedAt = Len(sent), !.cur[1].given = <<c.arg.presetId>>]

\* gotoPresetWithZones(channel, presetId, zonesProvider, opts), to the await
\* of PtzCtrl in gotoPreset
CallGotoPresetWithZones ==
  /\ CanCall
  /\ \E presetId \in {3, 5}, speed \in {<<>>, <<0>>, <<32>>, <<100>>},
        settleMs \in {<<>>, <<0>>} :
       LET opts == [speed |-> speed, settleMs |-> settleMs] IN
       /\ call' = [Enter("gotoPresetWithZones", [presetId |-> presetId, opts |-> opts])
                     EXCEPT !.pc = "awaitMove", !.cur = <<NoProgress>>]
       /\ sent' = <<Request("PtzCtrl", [op |-> "ToPos", id |-> presetId,
                                        speed |-> speedOf(opts)])>>
  /\ UNCHANGED <<world, client, emitter, poller>>

\* gotoPreset from the response of PtzCtrl on
MoveResponse ==
  /\ call.fn = "gotoPresetWithZones"
  /\ call.pc = "awaitMove"
  /\ \E r \in PtzResponses :
       LET e == IF r.kind = "throw" THEN PlainError("fetch failed")
                ELSE apiInternalError(r, "PtzCtrl")
           c == [call EXCEPT !.cur[1].answered = @ + 1, !.cur[1].move = <<r>>]
       IN call' = IF e # NoError THEN Return(c, e)
                  ELSE IF needsDelay(settleOf(call.arg.opts)) THEN [c EXCEPT !.pc = "delay"]
                  ELSE callProvider(c)
  /\ UNCHANGED <<world, client, emitter, poller, sent>>

\* the timer of delay(settleMs) fires
DelayElapsed ==
  /\ call.fn = "gotoPresetWithZones"
  /\ call.pc = "delay"
  /\ call' = callProvider([call EXCEPT !.cur[1].delayed = TRUE])
  /\ UNCHANGED <<world, client, emitter, poller, sent>>

\* gotoPresetWithZones from the result of zonesProvider on: it rejects, or
\* resolves with undefined or with the zones
ProviderReturns ==
  /\ call.fn = "gotoPresetWithZones"
  /\ call.pc = "awaitProvider"
  /\ \/ /\ call' = Return(call, PlainError("zonesProvider failed"))
        /\ UNCHANGED sent
     \/ /\ call' = Return(call, NoError)
        /\ UNCHANGED sent
     \/ \E zones \in PresetZones :
          /\ call' = startStep([call EXCEPT !.cur[1].zones = <<zones>>], 1)
          /\ sent' = sent \o stepRequest(call')
  /\ UNCHANGED <<world, client, emitter, poller>>

NextApply ==
  \/ CallApplyZonesForPreset
  \/ CallGotoPresetWithZones
  \/ MoveResponse
  \/ DelayElapsed
  \/ ProviderReturns
  \/ ZoneStepResponse
  \/ ZoneGetResponse

SpecApply == InitGuard /\ [][NextApply]_vars

(***************************************************************************)
(* Snapshots: snapToBuffer (src/src/snapshot.ts)                           *)
(***************************************************************************)
\* the bytes of a body: the two of the JPEG header, and two others
SnapBytes == {255, 216, 217, 0}

\* what fetch gives back for the Snap request: a rejected promise, or a
\* response with a status and a binary body
SnapResponses ==
  {[kind |-> "throw", status |-> 0, body |-> <<>>]}
    \cup [kind : {"http"}, status : {200, 206, 401, 500},
          body : SeqsUpTo(SnapBytes, MaxBody)]

\* a check of the first byte only
isJpegFirstByte(buffer) == Len(buffer) >= 1 /\ buffer[1] = 255

\* !(buffer.length < 2 || buffer[0] !== 0xff || buffer[1] !== 0xd8)
isJpeg(buffer) == Len(buffer) >= 2 /\ buffer[1] = 255 /\ buffer[2] = 216

\* snapToBuffer: the error it throws for response r, or NoError
snapError(r) ==
  IF r.kind = "throw" THEN PlainError("fetch failed")
  ELSE IF ~ok(r) THEN PlainError("Failed to capture snapshot: HTTP")
  ELSE IF ~isJpeg(r.body) THEN PlainError("Invalid JPEG data received (missing JPEG header)")
  ELSE NoError

\* snapToBuffer(client, channel), to the await of fetch
CallSnapToBuffer ==
  /\ CanCall
  /\ \E channel \in {0, 1} :
       /\ call' = [Enter("snapToBuffer", [channel |-> channel]) EXCEPT !.pc = "awaitSnap"]
       /\ sent' = <<Request("Snap", [channel |-> channel, auth |-> queryAuth(mode, token)])>>
  /\ UNCHANGED <<world, client, emitter, poller>>

\* snapToBuffer from the response on: the buffer it returns is in cur
SnapResponse ==
  /\ call.fn = "snapToBuffer"
  /\ call.pc = "awaitSnap"
  /\ \E r \in SnapResponses :
       call' = Return([call EXCEPT !.resp = <<r>>,
                                   !.cur = IF snapError(r) = NoError THEN <<r.body>> ELSE <<>>],
                      snapError(r))
  /\ UNCHANGED <<world, client, emitter, poller, sent>>

NextSnap ==
  \/ CallSnapToBuffer
  \/ SnapResponse

SpecSnap == InitGuard /\ [][NextSnap]_vars

(***************************************************************************)
(* Vocabulary of the properties                                            *)
(***************************************************************************)
\* an error of auth-failure shape: HTTP 401, vendor rspCode -1, or a detail
\* that mentions token or session
AuthShaped(err) ==
  \/ err.code = 401
  \/ err.rspCode = -1
  \/ err.detail \in {<<"n","o"," ","T","o","k","e","n">>, <<"S","E","S","S","I","O","N">>}

\* this step is the invocation of method op by caller p
Invoked(p, op) ==
  /\ Free(p)
  /\ ops' = ops + 1
  /\ proc'[p] # proc[p]
  /\ proc'[p].op = op

\* the invocation raises the error of a failed Login, or a rejected fetch
LoginFailed(b) ==
  \/ b.out = "httpError" /\ b.err.command = "Login"
  \/ b.out = "error"

(***************************************************************************)
(* C1  Retry cap.  In token-session mode an api() call never sends its     *)
(* command a third time.  When every command response it received was an   *)
(* auth failure, its logins succeeded and the session was not closed       *)
(* under it, it has sent the command exactly twice, relogged in exactly    *)
(* once, and raises the second failure; the step that catches the first    *)
(* failure leaves token = "null" and expiry = 0.                           *)
(***************************************************************************)
C1_Settled(b) ==
  /\ b.sends <= 2
  /\ ( /\ b.pc = "done"
       /\ b.resps >= 1
       /\ b.authFails = b.resps
       /\ ~LoginFailed(b)
       /\ b.out # "closed" )
     => ( /\ b.sends = 2
          /\ b.relogins = 1
          /\ b.out = "httpError"
          /\ b.err.command = "cmd"
          /\ AuthShaped(b.err) )

C1_RetryCap ==
  [][\A p \in Procs :
       (mode = "long" /\ proc'[p].op = "api") =>
         /\ C1_Settled(proc'[p])
         /\ (proc[p].op = "api" /\ proc[p].retryCount = 0 /\ proc'[p].retryCount = 1)
              => (token' = NoToken /\ tokenExpiryTime' = 0)]_vars

C1_Witness ==
  \E p \in Procs :
    /\ mode = "long"
    /\ proc[p].op = "api"
    /\ proc[p].pc = "done"
    /\ proc[p].resps = 2
    /\ proc[p].authFails = 2
    /\ proc[p].sends = 2
    /\ proc[p].relogins = 1
    /\ proc[p].out = "httpError"

(***************************************************************************)
(* C2  As claimed: one api() call in token-session mode performs at most   *)
(* one implicit login().                                                   *)
(***************************************************************************)
C2_Original ==
  \A p \in Procs :
    (mode = "long" /\ proc[p].op = "api") => proc[p].logins <= 1

(***************************************************************************)
(* C2  Amended: one api() call in token-session mode performs at most two  *)
(* implicit login()s: at most one before its first send and at most one    *)
(* relogin after an auth failure.                                          *)
(***************************************************************************)
C2_Amended ==
  \A p \in Procs :
    (mode = "long" /\ proc[p].op = "api") =>
      /\ proc[p].logins <= 2
      /\ proc[p].relogins <= 1
      /\ proc[p].logins - proc[p].relogins <= 1
      /\ (proc[p].sends = 0 => proc[p].relogins = 0)

C2_Witness ==
  \E p \in Procs :
    /\ mode = "long"
    /\ proc[p].op = "api"
    /\ proc[p].logins = 2
    /\ proc[p].relogins = 1
    /\ proc[p].pc = "done"

(***************************************************************************)
(* C3  As claimed: a requestMany that raises an auth-shaped failure to     *)
(* its caller (HTTP 401, or a member envelope with code # 0 whose rspCode  *)
(* is -1 or whose detail mentions token or session) has relogged in once   *)
(* and sent the entire batch a second time before that.                    *)
(***************************************************************************)
C3_Original ==
  \A p \in Procs :
    ( /\ mode = "long"
      /\ proc[p].op = "many"
      /\ proc[p].pc = "done"
      /\ proc[p].out = "httpError"
      /\ proc[p].err.command = "cmd"
      /\ AuthShaped(proc[p].err) )
    => ( /\ proc[p].sends = 2
         /\ proc[p].relogins = 1
         /\ proc[p].envs = 2 * proc[p].n )

(***************************************************************************)
(* C4  Mode isolation.  In per-request mode, whatever api() and            *)
(* requestMany() calls are made and whatever the device answers, no Login  *)
(* is sent, token, lease and expiry keep their initial values, every       *)
(* request carries user and password, and a command is sent once only,     *)
(* also when it fails.                                                     *)
(***************************************************************************)
C4_ModeIsolation ==
  mode = "short" =>
    /\ token = NoToken
    /\ tokenExpiryTime = 0
    /\ tokenLeaseTime = DefaultLeaseTime
    /\ \A p \in Procs :
         /\ proc[p].logins = 0
         /\ proc[p].sends <= 1
         /\ proc[p].sends > 0 => proc[p].auth = "user+password"
         /\ (proc[p].pc = "done" /\ proc[p].n > 0) => proc[p].sends = 1
         /\ proc[p].pc \in {"idle", "awaitCmd", "done"}

C4_Witness ==
  \E p \in Procs :
    /\ mode = "short"
    /\ proc[p].op = "many"
    /\ proc[p].pc = "done"
    /\ proc[p].out = "httpError"
    /\ proc[p].err.code = 401
    /\ proc[p].sends = 1
    /\ ops >= 2

(***************************************************************************)
(* C5  As claimed: an api(), requestMany() or login() invoked on a closed  *)
(* session fails at once with the closed error and sends nothing.          *)
(***************************************************************************)
C5_Original ==
  \A p \in Procs :
    (proc[p].atClosed /\ proc[p].op \in {"api", "many", "login"}) =>
      /\ proc[p].pc = "done"
      /\ proc[p].out = "closed"
      /\ proc[p].sends = 0
      /\ proc[p].logins = 0

(***************************************************************************)
(* C6  Idempotent close.  The closed flag never returns to false, so the   *)
(* teardown of close() runs at most once; a close() invoked on a closed    *)
(* session, also while the first close() is still awaiting, returns at     *)
(* once without raising, sends nothing and changes neither the token       *)
(* fields nor the pollers.                                                 *)
(***************************************************************************)
C6_IdempotentClose ==
  [][/\ closed => closed'
     /\ \A p \in Procs :
          (Invoked(p, "close") /\ closed) =>
            /\ proc'[p].pc = "done"
            /\ proc'[p].out = "value"
            /\ proc'[p].sends = 0
            /\ proc'[p].logins = 0
            /\ UNCHANGED <<session, closed, pollers>>
     /\ \A p \in Procs :
          (Invoked(p, "close") /\ ~closed) =>
            (closed' /\ proc'[p].pc \in {"awaitClose", "awaitLogout"})]_vars

C6_Witness ==
  \E p, q \in Procs :
    /\ proc[p].op = "close"
    /\ proc[p].pc = "awaitClose"
    /\ ~proc[p].atClosed
    /\ proc[q].op = "close"
    /\ proc[q].pc = "done"
    /\ proc[q].atClosed
    /\ proc[q].out = "value"

(***************************************************************************)
(* C7  As claimed: a close() of an open token session that holds a token   *)
(* has sent a Logout by the time it returns, and leaves token = "null"     *)
(* and expiry = 0.                                                         *)
(***************************************************************************)
C7_Original ==
  \A p \in Procs :
    ( /\ mode = "long"
      /\ proc[p].op = "close"
      /\ proc[p].pc = "done"
      /\ ~proc[p].atClosed
      /\ proc[p].hadToken )
    => ( /\ proc[p].sends = 1
         /\ token = NoToken
         /\ tokenExpiryTime = 0 )

(***************************************************************************)
(* C8  As claimed, second half: after close() has returned, no poller      *)
(* that close() stopped starts a new tick.                                 *)
(***************************************************************************)
C8_Original ==
  \A e \in Emitters : ~emitter[e].lateTick

\* this step begins a tick of poller e in slot p
TickStarts(p, e) ==
  /\ Free(p)
  /\ proc'[p] # proc[p]
  /\ proc'[p].op = "poll"
  /\ proc'[p].em = e

(***************************************************************************)
(* C8  Pollers stopped before logout.  The step of close() that sets the   *)
(* closed flag leaves every registered poller inactive with its timer      *)
(* cleared, empties the registry, and ends at the logout step.  A stopped  *)
(* poller has no timer, so a poller that close() stopped begins no tick    *)
(* on its interval; it begins one only in a step that is a new start().    *)
(***************************************************************************)
C8_Amended ==
  [][/\ (~closed /\ closed') =>
          /\ \A e \in eventEmitters :
               /\ ~emitter'[e].isRunning
               /\ ~emitter'[e].pollTimer
               /\ emitter'[e].atClose
          /\ eventEmitters' = {}
          /\ \E p \in Procs : proc'[p].op = "close" /\ proc'[p].pc = "awaitClose"
     /\ \A e \in Emitters :
          /\ ~emitter[e].isRunning => ~emitter[e].pollTimer
          /\ \A p \in Procs :
               (TickStarts(p, e) /\ emitter[e].atClose /\ ~emitter[e].isRunning)
                 => emitter'[e].isRunning]_vars

C8_Witness ==
  \E e \in Emitters : \E p, q \in Procs :
    /\ closeReturned
    /\ emitter[e].atClose
    /\ ~emitter[e].isRunning
    /\ ~emitter[e].pollTimer
    /\ proc[p].op = "poll"
    /\ proc[p].em = e
    /\ proc[q].op = "close"
    /\ proc[q].pc = "done"
    /\ ~proc[q].atClosed

(***************************************************************************)
(* C9  logout() never raises and never logs in.  Invoked on an open        *)
(* session that holds a token it sends one Logout carrying that token,     *)
(* and the step that takes the response, whatever the response is,         *)
(* settles it and leaves token = "null" and expiry = 0.  Invoked with      *)
(* the token "null" or on a closed session it sends nothing and changes    *)
(* no state.                                                               *)
(***************************************************************************)
C9_Logout ==
  [][\A p \in Procs :
       /\ proc'[p].op = "logout" =>
            /\ proc'[p].out \in {"none", "value"}
            /\ proc'[p].logins = 0
            /\ proc'[p].sends <= 1
       /\ (Invoked(p, "logout") /\ (token = NoToken \/ closed)) =>
            /\ proc'[p].pc = "done"
            /\ proc'[p].sends = 0
            /\ UNCHANGED <<session, closed, pollers>>
       /\ (Invoked(p, "logout") /\ token # NoToken /\ ~closed) =>
            /\ proc'[p].pc = "awaitLogout"
            /\ proc'[p].sends = 1
            /\ proc'[p].auth = queryAuth(mode, token)
            /\ UNCHANGED session
       /\ (proc[p].op = "logout" /\ proc[p].pc = "awaitLogout" /\ proc'[p] # proc[p]) =>
            /\ proc'[p].pc = "done"
            /\ proc'[p].out = "value"
            /\ proc'[p].sends = 1
            /\ token' = NoToken
            /\ tokenExpiryTime' = 0]_vars

C9_Witness ==
  \E p \in Procs :
    /\ proc[p].op = "logout"
    /\ proc[p].pc = "done"
    /\ proc[p].hadToken
    /\ proc[p].sends = 1
    /\ proc[p].resps = 1
    /\ token = NoToken
    /\ tokenExpiryTime = 0

(***************************************************************************)
(* C10  Proactive refresh.  In token-session mode an api() invoked on an   *)
(* open session sends a Login before its first send if and only if the     *)
(* token is "null" or now >= expiry - 60 s; otherwise it goes on to send   *)
(* without a Login.  When the lease granted is 60 s or less, every call    *)
(* that finds a token logs in again.                                       *)
(***************************************************************************)
C10_Refresh ==
  [][\A p \in Procs :
       (Invoked(p, "api") /\ mode = "long" /\ ~closed) =>
         /\ (proc'[p].pc = "awaitLogin" /\ proc'[p].logins = 1 /\ proc'[p].sends = 0)
              <=> (token = NoToken \/ now >= tokenExpiryTime - 60000)
         /\ (proc'[p].pc = "ensured" /\ proc'[p].logins = 0 /\ proc'[p].sends = 0)
              <=> ~(token = NoToken \/ now >= tokenExpiryTime - 60000)
         /\ (token # NoToken /\ tokenLeaseTime <= 60) => proc'[p].pc = "awaitLogin"]_vars

C10_Witness ==
  \E p \in Procs :
    /\ mode = "long"
    /\ proc[p].op = "api"
    /\ proc[p].pc = "awaitLogin"
    /\ proc[p].retryCount = 0
    /\ proc[p].hadToken
    /\ deviceLease = <<>>
    /\ token # NoToken
    /\ now = tokenExpiryTime - 60000

(***************************************************************************)
(* C11  login() changes the session only on success.  The step that takes  *)
(* the Login response of a login() either settles it with a value, and     *)
(* then token is the name granted (overwriting the earlier one), the lease *)
(* is the one granted, 3600 s when the response carries none, and expiry   *)
(* is now + lease * 1000 ms; or it settles it with an error, which for an  *)
(* error envelope or a non-success status carries that code, rspCode and   *)
(* detail under the command "Login", and then token, lease and expiry are  *)
(* as they were.  The invocation step itself changes none of them.         *)
(***************************************************************************)
C11_LoginFrame ==
  [][\A p \in Procs :
       /\ Invoked(p, "login") => UNCHANGED session
       /\ (proc[p].op = "login" /\ proc[p].pc = "awaitLogin" /\ proc'[p] # proc[p]) =>
            /\ proc'[p].pc = "done"
            /\ proc'[p].out \in {"value", "httpError", "error"}
            /\ proc'[p].out = "value" =>
                 /\ token' \in TokenNames
                 /\ token' # token
                 /\ tokenLeaseTime' = (IF deviceLease = <<>> THEN 3600 ELSE deviceLease[1])
                 /\ tokenExpiryTime' = now + tokenLeaseTime' * 1000
            /\ proc'[p].out # "value" => UNCHANGED session
            /\ proc'[p].out = "httpError" =>
                 /\ proc'[p].err.command = "Login"
                 /\ \/ /\ proc'[p].err.code = 401
                       /\ proc'[p].err.rspCode = 401
                    \/ /\ proc'[p].err.code = 1
                       /\ proc'[p].err.rspCode = -1
                       /\ proc'[p].err.detail = <<"b","a","d">>]_vars

C11_Witness ==
  \E p \in Procs :
    /\ proc[p].op = "login"
    /\ proc[p].pc = "done"
    /\ proc[p].out = "value"
    /\ proc[p].hadToken
    /\ deviceLease = <<>>
    /\ token \in TokenNames
    /\ tokenLeaseTime = 3600
    /\ tokenExpiryTime = now + 3600000
    /\ now > 0

(***************************************************************************)
(* C12  As claimed, second half: the first tick after a start(), also a    *)
(* start() that follows a stop(), emits nothing.                           *)
(***************************************************************************)
C12_Original ==
  ~pollHist.startTickEmitted

\* this step is the one in which checkChannel s takes the result of its
\* call from and goes on to
Reads(s, from, to) ==
  /\ inflight[s].pc = from
  /\ inflight'[s].pc = to

(***************************************************************************)
(* C12  Emission on change only.  The step in which checkChannel takes     *)
(* the motion (AI) state emits a motion (AI) notification if and only if   *)
(* the LastState object it works on held a motion (AI) value and the value *)
(* read differs from it; the notification carries the value read; no       *)
(* other step emits.  A poller whose cache has no entry yet emits nothing: *)
(* its first ticks only seed the cache.  The cache outlives stop().        *)
(***************************************************************************)
C12_Amended ==
  [][/\ \A s \in TickSlots :
          LET ref == inflight[s].ref IN
          /\ Reads(s, "awaitMd", "awaitAi") =>
               /\ emitted'.kind \in {"none", "motion"}
               /\ emitted'.kind = "motion" <=>
                    (heap[ref].motion # <<>> /\ heap'[ref].motion # heap[ref].motion)
               /\ emitted'.kind = "motion" => emitted'.active = heap'[ref].motion
          /\ Reads(s, "awaitAi", "idle") =>
               /\ emitted'.kind \in {"none", "ai"}
               /\ emitted'.kind = "ai" <=>
                    (heap[ref].ai # <<>> /\ heap'[ref].ai # heap[ref].ai)
               /\ emitted'.kind = "ai" => emitted'.active = heap'[ref].ai
               /\ lastStates' = ref
     /\ (\A s \in TickSlots : inflight'[s].pc = inflight[s].pc \/ inflight[s].pc = "idle")
          => emitted'.kind = "none"
     /\ emitted'.kind # "none" => lastStates # 0
     /\ (pollHist'.last = "stop" /\ pollHist' # pollHist)
          => UNCHANGED <<lastStates, heap>>]_vars

C12_Witness ==
  /\ pollHist.startTickEmitted
  /\ pollHist.last = "md"
  /\ emitted.kind = "motion"
  /\ emitted.to # {}
  /\ pollHist.removed # {}

\* this step is a call of stop() on the poller
Stops == pollHist'.last = "stop" /\ pollHist' # pollHist

(***************************************************************************)
(* C13  As claimed: every stop() leaves the timer cleared and removes      *)
(* every listener registered before it.                                    *)
(***************************************************************************)
C13_Original ==
  [][Stops => (listeners' = {} /\ ~emitter'[1].pollTimer /\ ~emitter'[1].isRunning)]_vars

(***************************************************************************)
(* C13  stop() is synchronous.  Called on a running poller, its one step   *)
(* clears isRunning and the timer and removes every listener, and leaves   *)
(* the ticks in flight as they are; called on a poller that is not         *)
(* running it changes nothing, listeners included.  A poller that is not   *)
(* running has no timer and begins a tick only in a start().  Every        *)
(* notification goes to the listeners registered at that moment, so a      *)
(* tick that completes after the stop() delivers nothing to the listeners  *)
(* the stop() removed.                                                     *)
(***************************************************************************)
C13_Amended ==
  [][/\ (Stops /\ emitter[1].isRunning) =>
          /\ listeners' = {}
          /\ ~emitter'[1].isRunning
          /\ ~emitter'[1].pollTimer
          /\ listeners \subseteq pollHist'.removed
          /\ UNCHANGED <<inflight, lastStates, heap>>
     /\ (Stops /\ ~emitter[1].isRunning) =>
          UNCHANGED <<listeners, emitter, inflight, lastStates, heap>>
     /\ ~emitter[1].isRunning => ~emitter[1].pollTimer
     /\ (pollHist'.polls # pollHist.polls /\ ~emitter[1].isRunning)
          => (emitter'[1].isRunning /\ pollHist'.last = "start")
     /\ emitted'.kind # "none" =>
          /\ emitted'.to = listeners
          /\ emitted'.to \cap pollHist.removed = {}]_vars

C13_Witness ==
  /\ ~emitter[1].isRunning
  /\ pollHist.removed # {}
  /\ pollHist.last \in {"md", "ai"}
  /\ emitted.kind # "none"
  /\ emitted.to = {}

\* the SetPtzGuard commands issued by the call
GuardWrites == {i \in 1..Len(sent) : sent[i].cmd = "SetPtzGuard"}

(***************************************************************************)
(* C14  As claimed: no guard write path ever sends a SetPtzGuard whose     *)
(* timeout is not 60.                                                      *)
(***************************************************************************)
C14_Original ==
  \A i \in GuardWrites : sent[i].param.timeout = <<60>>

(***************************************************************************)
(* C14  Guard timeout.  PresetsModule.setGuard never sends a SetPtzGuard   *)
(* whose timeout is not 60: asked for another timeout it raises a local    *)
(* error and has sent nothing.  setPtzGuard sends the timeout it is given, *)
(* 60 when it is given none, and toggleGuardMode the timeout it read, 60   *)
(* when it read none.                                                      *)
(***************************************************************************)
C14_Amended ==
  /\ call.fn = "setGuard" =>
       /\ \A i \in GuardWrites : sent[i].param.timeout = <<60>>
       /\ (call.arg.timeoutSec \notin {<<>>, <<60>>}) =>
            /\ call.pc = "done"
            /\ call.out = "error"
            /\ sent = <<>>
       /\ (call.arg.timeoutSec \in {<<>>, <<60>>}) => Len(sent) = 1
  /\ call.fn = "setPtzGuard" =>
       /\ Len(sent) = 1
       /\ sent[1].param.timeout =
            (IF call.arg.timeout = <<>> THEN <<60>> ELSE call.arg.timeout)
  /\ (call.fn = "toggleGuardMode" /\ Len(sent) = 2) =>
       sent[2].param.timeout =
         (IF call.cur[1] = <<>> THEN <<60>>
          ELSE IF call.cur[1][1].timeout = <<>> THEN <<60>>
          ELSE call.cur[1][1].timeout)

C14_Witness ==
  /\ call.fn = "setGuard"
  /\ call.arg.timeoutSec = <<90>>
  /\ call.arg.enable = <<TRUE>>
  /\ call.pc = "done"
  /\ call.out = "error"
  /\ sent = <<>>

(***************************************************************************)
(* C15  toggleGuardMode issues GetPtzGuard and then, when the read         *)
(* succeeded, exactly one SetPtzGuard: benable is 0 when the value read    *)
(* was 1 and 1 otherwise (also when the device reported no guard), the     *)
(* timeout is the one read, 60 when none was reported, and cmdStr and      *)
(* bSaveCurrentPos are present.  When the read fails the call fails and    *)
(* nothing is written.                                                     *)
(***************************************************************************)
C15_Toggle ==
  call.fn = "toggleGuardMode" =>
    /\ Len(sent) \in {1, 2}
    /\ sent[1].cmd = "GetPtzGuard"
    /\ call.pc = "awaitGet" => Len(sent) = 1
    /\ (call.pc = "done" /\ call.cur = <<>>) =>
         (Len(sent) = 1 /\ call.out \in {"error", "httpError"})
    /\ (call.pc = "awaitSet" \/ (call.pc = "done" /\ call.cur # <<>>)) => Len(sent) = 2
    /\ Len(sent) = 2 =>
         LET read == call.cur[1]
             written == sent[2].param
         IN /\ sent[2].cmd = "SetPtzGuard"
            /\ written.benable =
                 (IF read # <<>> /\ read[1].benable = 1 THEN <<0>> ELSE <<1>>)
            /\ written.timeout =
                 (IF read = <<>> THEN <<60>>
                  ELSE IF read[1].timeout = <<>> THEN <<60>> ELSE read[1].timeout)
            /\ written.cmdStr = <<"setPos">>
            /\ written.bSaveCurrentPos = <<1>>

C15_Witness ==
  /\ call.fn = "toggleGuardMode"
  /\ call.pc = "done"
  /\ call.out = "value"
  /\ Len(sent) = 2
  /\ call.cur = << <<[benable |-> 1, timeout |-> <<>>]>> >>
  /\ sent[2].param.benable = <<0>>
  /\ sent[2].param.timeout = <<60>>

(***************************************************************************)
(* C16  As claimed: when the device rejects SetPtzGuard, SetPtzPatrol or   *)
(* a StartPatrol/StopPatrol PtzCtrl with vendor code -1, -4 or -9, the     *)
(* error raised carries that rspCode and the mapped condition, not the     *)
(* detail the device wrote.                                                *)
(***************************************************************************)
C16_Original ==
  ( /\ call.fn \in {"setPtzGuard", "setPtzPatrol", "startPatrol", "stopPatrol"}
    /\ call.pc = "done"
    /\ call.resp # <<>>
    /\ call.resp[1].kind = "http"
    /\ call.resp[1].status = 200
    /\ call.resp[1].data[1].code # 0
    /\ call.resp[1].data[1].rspCode \in {-1, -4, -9} )
  => /\ call.out = "httpError"
     /\ call.err.rspCode = call.resp[1].data[1].rspCode
     /\ call.err.detail =
          (IF call.err.rspCode = -1 THEN <<"Invalid preset or position">>
           ELSE IF call.err.rspCode = -4 THEN <<"Parameter format error">>
           ELSE <<"Not supported on this model">>)

(***************************************************************************)
(* C17  As claimed, for a preset array that is not empty: a configuration  *)
(* that has a preset array is never resolved by the points or path         *)
(* conversion, so the preset array that goes to the device is the one      *)
(* given.                                                                  *)
(***************************************************************************)
C17_Original ==
  (call.fn = "setPtzPatrol" /\ call.arg.preset # <<>> /\ call.arg.preset # << <<>> >>) =>
    /\ Len(sent) = 1
    /\ sent[1].param.preset = call.arg.preset

(***************************************************************************)
(* C18  As claimed, for a list of waypoints that is not empty: a           *)
(* configuration with a points array (or, failing that, a path array) and  *)
(* no preset array, with or without an id, makes                           *)
(* setPtzPatrol send one SetPtzPatrol whose PtzPatrol.preset has the       *)
(* waypoints in order, entry i being {id: presetId_i, speed: speed_i,      *)
(* dwellTime: stayTime_i}, with the channel set.                           *)
(***************************************************************************)
C18_Original ==
  ( /\ call.fn = "setPtzPatrol"
    /\ call.arg.preset = <<>>
    /\ (call.arg.points # <<>> \/ call.arg.path # <<>>)
    /\ (call.arg.points # <<>> => call.arg.points # << <<>> >>)
    /\ (call.arg.points = <<>> => call.arg.path # << <<>> >>) )
  => LET from == IF call.arg.points # <<>> THEN call.arg.points[1] ELSE call.arg.path[1]
         param == sent[1].param
     IN /\ Len(sent) = 1
        /\ sent[1].cmd = "SetPtzPatrol"
        /\ param.wrapped
        /\ param.channel = <<0>>
        /\ param.preset # <<>>
        /\ Len(param.preset[1]) = Len(from)
        /\ \A i \in 1..Len(from) :
             param.preset[1][i] = [id |-> from[i].presetId, speed |-> <<from[i].speed>>,
                                   dwellTime |-> <<from[i].stayTime>>]

\* the Grid Area of the call has as many bits as cells
GridFits == Len(call.arg.area.bits) = call.arg.area.width * call.arg.area.height

(***************************************************************************)
(* C19  Grid validation.  setMdZone and setAiZone called with a Grid Area  *)
(* whose bit string is not width * height long, and setAiZone called with  *)
(* an ai_type outside people, vehicle, dog_cat, face, raise a local error  *)
(* and send nothing; called with valid arguments they do send a request.   *)
(***************************************************************************)
C19_Validation ==
  call.fn \in {"setMdZone", "setAiZone"} =>
    LET bad == \/ ~GridFits
               \/ /\ call.fn = "setAiZone"
                  /\ call.arg.ai_type \notin {"people", "vehicle", "dog_cat", "face"}
    IN /\ bad => (sent = <<>> /\ call.pc = "done" /\ call.out = "error")
       /\ ~bad => Len(sent) >= 1

C19_Witness ==
  /\ call.fn = "setMdZone"
  /\ call.arg.area = [width |-> 2, height |-> 2, bits |-> <<"1", "0">>]
  /\ call.pc = "done"
  /\ call.out = "error"
  /\ sent = <<>>

(***************************************************************************)
(* C20  Read-modify-write.  setMdZone with a valid grid issues GetMdAlarm  *)
(* and then at most one SetMdAlarm.  When the fetch gives a configuration, *)
(* its fields beside channel, the grid fields of scope and table go into   *)
(* the write unchanged, with the channel, the new grid and the new table;  *)
(* when the fetch fails with a ReolinkHttpError that error is raised and   *)
(* nothing is written; when it fails otherwise the write carries channel,  *)
(* scope and table only.                                                   *)
(***************************************************************************)
C20_ReadModifyWrite ==
  (call.fn = "setMdZone" /\ GridFits) =>
    /\ Len(sent) \in {1, 2}
    /\ sent[1].cmd = "GetMdAlarm"
    /\ call.pc = "awaitGet" => Len(sent) = 1
    /\ call.pc # "awaitGet" =>
         LET r == call.resp[1]
             area == call.arg.area
             grid == [width |-> area.width, height |-> area.height,
                      cols |-> area.width, rows |-> area.height, table |-> area.bits]
             structured == r.kind = "http" /\ (r.status # 200 \/ r.data[1].code # 0)
         IN /\ structured =>
                 /\ Len(sent) = 1
                 /\ call.pc = "done"
                 /\ call.out = "httpError"
                 /\ call.err.command = "GetMdAlarm"
            /\ ~structured =>
                 LET w == sent[2].param IN
                 /\ Len(sent) = 2
                 /\ sent[2].cmd = "SetMdAlarm"
                 /\ w.channel = 0
                 /\ w.table = area.bits
                 /\ \A k \in DOMAIN grid : w.scope[k] = grid[k]
                 /\ (r.kind = "throw" \/ call.cur = << <<>> >>) =>
                      (w.sensitivity = <<>> /\ w.scope.extra = <<>>)
                 /\ (r.kind # "throw" /\ call.cur # << <<>> >>) =>
                      /\ w.sensitivity = call.cur[1][1].sensitivity
                      /\ w.scope.extra = (IF call.cur[1][1].scope = <<>> THEN <<>>
                                           ELSE call.cur[1][1].scope[1].extra)

C20_Witness ==
  /\ call.fn = "setMdZone"
  /\ call.pc = "done"
  /\ call.out = "value"
  /\ Len(sent) = 2
  /\ call.cur # <<>>
  /\ call.cur[1] # <<>>
  /\ call.cur[1][1].sensitivity = <<50>>
  /\ call.cur[1][1].scope # <<>>
  /\ sent[2].param.sensitivity = <<50>>
  /\ sent[2].param.scope.extra = <<"x">>
  /\ sent[2].param.table = <<"1", "1", "0", "1">>

\* the zones a call of applyZonesForPreset or gotoPresetWithZones applies
AppliedZones == call.cur[1].zones[1]
\* the commands of the call that write a zone, by kind
SentOf(cmds) == {i \in 1..Len(sent) : sent[i].cmd \in cmds}
\* the ai types of the SetAlarmArea commands sent, in order
RECURSIVE AiTypesSent(_)
AiTypesSent(i) ==
  IF i > Len(sent) THEN <<>>
  ELSE (IF sent[i].cmd = "SetAlarmArea" THEN <<sent[i].param.ai_type>> ELSE <<>>)
         \o AiTypesSent(i + 1)
\* the ai types of the entries of zones.ai that have an area, in order
RECURSIVE AiTypesGiven(_)
AiTypesGiven(entries) ==
  IF entries = <<>> THEN <<>>
  ELSE (IF Head(entries).area # <<>> THEN <<Head(entries).ai_type>> ELSE <<>>)
         \o AiTypesGiven(Tail(entries))

(***************************************************************************)
(* C21  Order of the zone writes.  Within one applyZonesForPreset the      *)
(* commands go out as SetMask, then GetMdAlarm and SetMdAlarm, then one    *)
(* SetAlarmArea per entry of zones.ai that has an area, in the order of    *)
(* the entries: no SetMask follows a motion or AI command, no motion       *)
(* command follows an AI command.  A part that is absent sends nothing,    *)
(* at most one command is unanswered at any time, and a call that returns  *)
(* a value has sent every part that is present.                            *)
(***************************************************************************)
C21_ZoneOrder ==
  call.fn = "applyZonesForPreset" =>
    LET zones == AppliedZones
        given == IF zones.ai = <<>> THEN <<>> ELSE AiTypesGiven(zones.ai[1])
        types == AiTypesSent(1)
    IN /\ \A i, j \in 1..Len(sent) :
            i < j =>
              /\ ~(sent[j].cmd = "SetMask"
                     /\ sent[i].cmd \in {"GetMdAlarm", "SetMdAlarm", "SetAlarmArea"})
              /\ ~(sent[j].cmd \in {"GetMdAlarm", "SetMdAlarm"}
                     /\ sent[i].cmd = "SetAlarmArea")
              /\ ~(sent[j].cmd = "GetMdAlarm" /\ sent[i].cmd = "SetMdAlarm")
       /\ Cardinality(SentOf({"SetMask"})) <= (IF zones.masks = <<>> THEN 0 ELSE 1)
       /\ Cardinality(SentOf({"GetMdAlarm"})) <= (IF zones.md = <<>> THEN 0 ELSE 1)
       /\ Cardinality(SentOf({"SetMdAlarm"})) <= Cardinality(SentOf({"GetMdAlarm"}))
       /\ Len(types) <= Len(given)
       /\ \A i \in 1..Len(types) : types[i] = given[i]
       /\ Len(sent) - call.cur[1].answered =
            (IF call.pc \in {"awaitMask", "awaitGet", "awaitSet", "awaitAi"} THEN 1 ELSE 0)
       /\ (call.pc = "done" /\ call.out = "value") =>
            /\ Cardinality(SentOf({"SetMask"})) = (IF zones.masks = <<>> THEN 0 ELSE 1)
            /\ Cardinality(SentOf({"SetMdAlarm"})) = (IF zones.md = <<>> THEN 0 ELSE 1)
            /\ types = given

C21_Witness ==
  /\ call.fn = "applyZonesForPreset"
  /\ call.pc = "done"
  /\ call.out = "value"
  /\ Len(sent) = 5
  /\ sent[1].cmd = "SetMask"
  /\ sent[2].cmd = "GetMdAlarm"
  /\ sent[3].cmd = "SetMdAlarm"
  /\ sent[4].cmd = "SetAlarmArea"
  /\ sent[4].param.ai_type = "vehicle"
  /\ sent[5].cmd = "SetAlarmArea"
  /\ sent[5].param.ai_type = "people"

(***************************************************************************)
(* C22  Move, settle, provider, zones.  gotoPresetWithZones sends PtzCtrl  *)
(* first.  zonesProvider is called at most once, with the preset id, only  *)
(* after the move succeeded and, when the settle time is positive (400 ms  *)
(* when none is given), after the delay elapsed, and before any zone       *)
(* command.  Zone commands are sent only after the provider returned       *)
(* zones.  When the provider returns nothing the call returns a value      *)
(* having sent PtzCtrl only; when the move fails the call raises and the   *)
(* provider is never called.                                               *)
(***************************************************************************)
C22_GotoWithZones ==
  call.fn = "gotoPresetWithZones" =>
    LET h == call.cur[1]
        settle == IF call.arg.opts.settleMs = <<>> THEN 400 ELSE call.arg.opts.settleMs[1]
        moved == /\ h.move # <<>>
                 /\ h.move[1].kind = "http"
                 /\ h.move[1].status = 200
                 /\ h.move[1].data[1].code = 0
    IN /\ Len(sent) >= 1
       /\ sent[1].cmd = "PtzCtrl"
       /\ sent[1].param.id = call.arg.presetId
       /\ SentOf({"PtzCtrl"}) = {1}
       /\ h.provided <= 1
       /\ h.provided = 1 =>
            /\ moved
            /\ settle > 0 => h.delayed
            /\ h.providedAt = 1
            /\ h.given = <<call.arg.presetId>>
       /\ call.pc \in {"awaitMove", "delay"} => (h.provided = 0 /\ Len(sent) = 1)
       /\ Len(sent) > 1 => (h.provided = 1 /\ h.zones # <<>>)
       /\ (h.move # <<>> /\ ~moved) =>
            /\ call.pc = "done"
            /\ call.out \in {"error", "httpError"}
            /\ h.provided = 0
            /\ Len(sent) = 1
       /\ (call.pc = "done" /\ h.provided = 1 /\ h.zones = <<>> /\ call.out = "value") =>
            Len(sent) = 1
       /\ (call.pc = "done" /\ moved /\ call.out = "value" /\ h.zones # <<>>) =>
            Len(sent) = 1 + Len(zoneSteps(h.zones[1]))
                          + (IF h.zones[1].md = <<>> THEN 0 ELSE 1)

C22_Witness ==
  /\ call.fn = "gotoPresetWithZones"
  /\ call.pc = "done"
  /\ call.out = "value"
  /\ call.arg.opts.settleMs = <<>>
  /\ call.cur[1].delayed
  /\ call.cur[1].provided = 1
  /\ call.cur[1].zones = <<>>
  /\ Len(sent) = 1

(***************************************************************************)
(* C23  Snapshot validity.  snapToBuffer sends one Snap request.  It       *)
(* returns a buffer if and only if the response has a success status and   *)
(* a body of at least two bytes that begins 0xFF 0xD8, and the buffer is   *)
(* that body; every other response makes it raise, and a body without the  *)
(* header under a success status raises the invalid-JPEG error.            *)
(***************************************************************************)
C23_SnapValid ==
  call.fn = "snapToBuffer" =>
    /\ Len(sent) = 1
    /\ sent[1].cmd = "Snap"
    /\ call.pc = "done" =>
         LET r == call.resp[1]
             success == r.kind = "http" /\ r.status >= 200 /\ r.status <= 299
             magic == Len(r.body) >= 2 /\ r.body[1] = 255 /\ r.body[2] = 216
         IN /\ call.out = "value" <=> (success /\ magic)
            /\ call.out = "value" => call.cur = <<r.body>>
            /\ call.out # "value" => (call.out = "error" /\ call.cur = <<>>)
            /\ (success /\ ~magic) =>
                 call.err.detail = <<"Invalid JPEG data received (missing JPEG header)">>

C23_Witness ==
  /\ call.fn = "snapToBuffer"
  /\ call.pc = "done"
  /\ call.resp[1].status = 200
  /\ call.resp[1].body = <<255, 217>>
  /\ call.out = "error"
  /\ call.err.detail = <<"Invalid JPEG data received (missing JPEG header)">>

\* this step takes the response to the first attempt of the command of p
FirstResponse(p) ==
  /\ proc[p].pc = "awaitCmd"
  /\ proc[p].retryCount = 0
  /\ proc'[p] # proc[p]

(***************************************************************************)
(* C24  Other failures pass through.  In token-session mode the step that  *)
(* takes the response to the first attempt of an api() or requestMany()    *)
(* retries only for an auth-shaped error.  When it raises instead, a       *)
(* rejected fetch or a device error, the command has been sent once, no    *)
(* Login was sent for it after the failure, token, lease and expiry are    *)
(* as they were, and the error of an api() is the device's own: code,      *)
(* rspCode and detail of the envelope, or the HTTP status.                 *)
(***************************************************************************)
C24_PassThrough ==
  [][\A p \in Procs :
       (mode = "long" /\ proc[p].op \in {"api", "many"} /\ FirstResponse(p)) =>
         /\ proc'[p].pc # "done" =>
              /\ proc'[p].retryCount = 1
              /\ AuthShaped(proc'[p].caught)
         /\ (proc'[p].pc = "done" /\ proc'[p].out \in {"error", "httpError"}) =>
              /\ proc'[p].retryCount = 0
              /\ proc'[p].sends = 1
              /\ proc'[p].relogins = 0
              /\ proc'[p].logins = proc[p].logins
              /\ UNCHANGED session
         /\ (proc'[p].pc = "done" /\ proc'[p].out = "httpError" /\ proc[p].op = "api") =>
              /\ proc'[p].err.command = "cmd"
              /\ ~AuthShaped(proc'[p].err)
              /\ \/ /\ proc'[p].err.code = 1
                    /\ proc'[p].err.rspCode = -4
                    /\ proc'[p].err.detail = <<"b","a","d">>
                 \/ /\ proc'[p].err.code = 500
                    /\ proc'[p].err.rspCode = 500]_vars

C24_Witness ==
  \E p \in Procs :
    /\ mode = "long"
    /\ proc[p].op = "api"
    /\ proc[p].pc = "done"
    /\ proc[p].out = "httpError"
    /\ proc[p].err.rspCode = -4
    /\ proc[p].retryCount = 0
    /\ proc[p].sends = 1
    /\ proc[p].relogins = 0
    /\ proc[p].hadToken
    /\ token \in TokenNames

(***************************************************************************)
(* C25  As claimed: an api() that raises an auth-shaped failure of its     *)
(* command to the caller leaves token = "null" and expiry = 0.             *)
(***************************************************************************)
C25_Original ==
  \A p \in Procs :
    ( /\ mode = "long"
      /\ proc[p].op = "api"
      /\ proc[p].pc = "done"
      /\ proc[p].out = "httpError"
      /\ proc[p].err.command = "cmd"
      /\ AuthShaped(proc[p].err) )
    => (token = NoToken /\ tokenExpiryTime = 0)

(***************************************************************************)
(* C27  As claimed: in token-session mode no request other than Login      *)
(* goes out carrying the token "null".                                     *)
(***************************************************************************)
C27_Original ==
  \A p \in Procs :
    (mode = "long" /\ proc[p].pc \in {"awaitCmd", "awaitLogout"}) =>
      proc[p].auth # NoToken

(***************************************************************************)
(* C29  As claimed: once the closed flag is set, an invocation that was    *)
(* in flight when close() was called sends no further Login or command     *)
(* and stores no new token.                                                *)
(***************************************************************************)
C29_Original ==
  [][\A p \in Procs :
       ( /\ closed
         /\ ~proc[p].atClosed
         /\ proc[p].op \in {"api", "login"}
         /\ proc[p].pc \notin {"idle", "done"}
         /\ proc'[p] # proc[p] )
       => /\ proc'[p].sends = proc[p].sends
          /\ proc'[p].logins = proc[p].logins
          /\ token' \in {token, NoToken}]_vars

(***************************************************************************)
(* C30  Vendor code -1 is retried.  In token-session mode an api() never   *)
(* settles on a first-attempt device error with rspCode -1: it takes it    *)
(* for an auth failure whatever the command and the detail, invalidates    *)
(* the token, logs in again and sends the command a second time.  The      *)
(* command of one api() goes out at most twice.                            *)
(***************************************************************************)
C30_MinusOneRetried ==
  \A p \in Procs :
    (mode = "long" /\ proc[p].op = "api") =>
      /\ proc[p].sends <= 2
      /\ proc[p].sends <= proc[p].retryCount + 1
      /\ (proc[p].pc = "done" /\ proc[p].retryCount = 0 /\ proc[p].out = "httpError"
            /\ proc[p].err.command = "cmd") => proc[p].err.rspCode # -1
      /\ (proc[p].caught # NoError /\ proc[p].caught.rspCode = -1) =>
           /\ proc[p].retryCount = 1
           /\ proc[p].relogins = 1
           /\ proc[p].pc \in {"awaitLogin", "ensured", "awaitCmd"}
           /\ proc[p].pc \in {"awaitLogin", "ensured"} => proc[p].sends = 1
           /\ proc[p].pc = "awaitCmd" => proc[p].sends = 2

C30_Witness ==
  \E p \in Procs :
    /\ mode = "long"
    /\ proc[p].op = "api"
    /\ proc[p].pc = "awaitCmd"
    /\ proc[p].caught.rspCode = -1
    /\ proc[p].caught.detail = <<"b","a","d">>
    /\ proc[p].retryCount = 1
    /\ proc[p].relogins = 1
    /\ proc[p].sends = 2
    /\ proc[p].auth \in TokenNames

\* the enabled state of the device's guard
Enabled == getPtzGuard(deviceGuard).benable
\* both toggles have returned without an error
BothToggled == \A i \in Togglers : toggler[i].pc = "done" /\ toggler[i].ok
\* the enabled state before the first toggle was invoked
OriginalEnabled == toggler[CHOOSE i \in Togglers : toggler[i].order = 1].before
\* one toggle was invoked after the other had returned
OneAfterTheOther == \E i, j \in Togglers : i \in toggler[j].after

(***************************************************************************)
(* C26  Lost update.  Two toggleGuardMode calls on one channel that both   *)
(* return without error leave the guard in its original enabled state      *)
(* when one was invoked after the other had returned; the guard ends       *)
(* flipped once exactly when both read the same enabled state, which       *)
(* happens in an interleaving where the second reads before the first      *)
(* has written.                                                            *)
(***************************************************************************)
C26_LostUpdate ==
  BothToggled =>
    /\ OneAfterTheOther => Enabled = OriginalEnabled
    /\ (toggler[1].read[1].benable = toggler[2].read[1].benable)
         <=> (Enabled # OriginalEnabled)
    /\ (toggler[1].read[1].benable = toggler[2].read[1].benable)
         => (~OneAfterTheOther
             /\ toggler[1].writing[1].benable = toggler[2].writing[1].benable)

C26_Witness ==
  /\ BothToggled
  /\ ~OneAfterTheOther
  /\ toggler[1].read[1].benable = 1
  /\ toggler[2].read[1].benable = 1
  /\ OriginalEnabled = 1
  /\ Enabled = 0

(***************************************************************************)
(* C28  As claimed: a motion notification never carries the active value   *)
(* of the motion notification before it, whatever the overlap of ticks.    *)
(***************************************************************************)
C28_Original ==
  [][(emitted'.kind = "motion" /\ pollHist.motion # <<>>)
       => emitted'.active # pollHist.motion]_vars

====
